---- MODULE Spec2Model ----
(***************************************************************************)
(* Blackhole automation: the concurrent batch engine (CREATE / RETRIEVE /  *)
(* UPDATE batches of BlackholeGUI.py and BatchRemoval.batch_post_views),   *)
(* the Create executor's retry loop (CreateBlackhole.py) and the pooled    *)
(* per-thread request client (PlayWrightUtil.PlaywrightClient).            *)
(***************************************************************************)
EXTENDS Integers, Sequences, FiniteSets, TLC

\* ------------------------------------------------------------------ bounds
MaxOps == 3          \* longest operations / IP list that is submitted
NumThreads == 2      \* threads that call the pooled client directly
MaxSessions == 3     \* _RequestSession objects the client may build in one run
MaxDisposes == 2     \* dispose() calls made on one client
MaxCpu == 12         \* largest os.cpu_count() the worker count is computed for
MaxRows == 3         \* most rows in the result of one RETRIEVE unit
MaxIps == 2          \* longest ip_list given to submit_blackholes_http
MaxTotal == 2        \* most units of a job that writes task_progress
MaxUnits == 2        \* RETRIEVE unit results folded into one aggregate
MaxEntries == 3      \* entries put on one SessionLogger's queue, header included

\* ------------------------------------------------------- program constants
MAX_RETRIES == 3
\* os.cpu_count() of the host the batches of this model run on: one CPU, which
\* gives the smallest pool the GUI ever asks for.
CpuCount == 1

\* os.cpu_count() returns a positive number, or None (modelled as 0).
CpuCounts == 0..MaxCpu

\* Mutant of WorkerCount: no upper bound.
WorkerCountUnclamped(cpu) == (IF cpu = 0 THEN 2 ELSE cpu) * 2

\* workers = min(16, max(1, (os.cpu_count() or 2) * 2)), then in
\* batch_post_views max(1, int(max_workers or 1)).
WorkerCount(cpu) ==
  LET n == (IF cpu = 0 THEN 2 ELSE cpu) * 2
      lo == IF n < 1 THEN 1 ELSE n
      w == IF lo > 16 THEN 16 ELSE lo
  IN IF w < 1 THEN 1 ELSE w

Workers == WorkerCount(CpuCount)

StatusCodes == {200}
Units == 1..MaxOps

\* What one HTTP attempt can give: a response with a status, or an exception
\* raised by the transport (timeout, connection failure).
Outcomes ==
  {[raised |-> FALSE, status |-> s, err |-> ""] : s \in StatusCodes}
    \cup {[raised |-> TRUE, status |-> 0, err |-> "transport"]}

\* A result dict.  "unit" is the index of the future the dict came from (the
\* position of its descriptor in the submitted list); "id" is the "id" key of
\* an UPDATE result and the "ip" key of a CREATE result; "status" is the
\* numeric status and "word" the word a CREATE result has in its place
\* ("aborted", "error"); "text" is the "text" / "message" key.
Res(u, id, ok, st, wd, tx) ==
  [unit |-> u, id |-> id, success |-> ok, status |-> st, word |-> wd, text |-> tx]

NoRes == Res(0, "", FALSE, 0, "", "none")

\* An exception message is modelled by the set of text fragments it contains;
\* NoError stands for "nothing was raised".
NoError == {"<none>"}
NoAnswer == [raised |-> FALSE, status |-> 0, body |-> "<none>", err |-> "<none>"]
NoUnitRes == [id |-> 0, success |-> FALSE, status |-> 0, text |-> "<none>"]
NoCreateResult == [ip |-> 0, success |-> FALSE, status |-> 0, message |-> "<none>"]
\* The jobs that write self.task_progress: two batch updates, a multi-IP
\* retrieve and a Collect-IDs run; and the keys they write under.
Jobs == {"UpdateA", "UpdateB", "Retrieve", "CollectIds"}
ProgressKeys == {"RETRIEVE", "UPDATE"}
NoProgress == [total |-> 0, processed |-> 0, aborted |-> FALSE, present |-> FALSE]
NoCreds == [username |-> "", password |-> ""]
NoConfig == [http_user |-> "<none>", http_pass |-> "<none>"]
NoFetchRes == <<[header |-> FALSE, cells |-> <<"<none>">>]>>
NoRow == [header |-> FALSE, cells |-> <<"<none>">>]
\* A key that is not in the filters dict (filters.get gives None / the default).
Absent == "<absent>"
NoItem == [kind |-> "<none>", entry |-> 0]
\* The session header __init__ enqueues after starting the writer: entry 1.
SessionHeader == [kind |-> "data", entry |-> 1]
NoClose == [sid |-> 0, reqErr |-> NoError, mgrErr |-> NoError, warned |-> {}]
Messages == {{"already stopped"}, {"Event loop is closed"}, {"Connection closed"}}

VARIABLES
  kind,          \* which batch the GUI worker thread runs ("NONE" before)
  ops,           \* the submitted descriptors: sequence of ids / IPs
  pc,            \* position of the GUI worker / orchestrator thread
  ust,           \* per unit: state of its future
  fres,          \* per unit: the value its executor returned (in the future)
  taken,         \* futures that as_completed has already yielded
  results,       \* the result list (results / aggregated)
  processed,     \* the processed counter of the harvest loop
  aborted,       \* the harvest loop saw the flag (aborted / task_progress)
  abort_event,   \* the GUI's single shared threading.Event
  client,        \* BatchRemoval.client: "none" or "open"
  excText,       \* error text of an exception caught at batch level
  started,       \* history: units that passed the abort check
  raisedU,       \* history: units whose executor call raised an exception
  abortEver,     \* history: the flag was set during this run
  runAtAbort,    \* history: units running when the flag was first set
  queuedAtAbort, \* history: units not yet started when the flag was first set
  cbCalls,       \* history: the (processed, total) arguments of every call of
                 \* the progress callback, in call order
  cbRaised,      \* history: a call of the progress callback raised
  sessions,      \* PlaywrightClient._sessions: sequence of session ids
  closed,        \* per session id: _RequestSession.closed
  owner,         \* per session id: _RequestSession.thread_id (0 = not built)
  tlocal,        \* per thread: PlaywrightClient._thread_local.session (0 = unset)
  tpc,           \* per thread: position inside get()/post()
  tses,          \* per thread: the session its current call holds (0 = none)
  first,         \* history, per thread: the first session a call of it got
  nextSid,       \* next fresh session id
  lock,          \* PlaywrightClient._lock holder (0 = free)
  mgr,           \* per thread: the Playwright manager of its latest
                 \* _create_session ("none", "open", "exited")
  dthr,          \* the thread inside dispose() (0 = none)
  dsnap,         \* dispose(): the local list `sessions` (copy of the tracked list)
  dpos,          \* dispose(): how many sessions of dsnap the loop has closed
  ndisp,         \* number of dispose() calls begun
  relReq,        \* per session id: calls of request.dispose() made so far
  relMgr,        \* per session id: calls of manager.__exit__() made so far
  lastClose,     \* history: the latest _RequestSession.close() of the
                 \* dispose() in progress in which something was raised:
                 \* session id, what request.dispose() and manager.__exit__()
                 \* raised, the logger.warning records
  aggregated,    \* do_retrieve: the aggregate (list of rows)
  seen_ids,      \* do_retrieve: seen_ids
  header_added,  \* do_retrieve: header_added
  harvested,     \* do_retrieve: futures as_completed has yielded (processed)
  aggPc,         \* do_retrieve: "wait" for the next future, at the "first"
                 \* row of its result, or in the loop over its "rows"
  rowsRead,      \* rows of the current result handled so far
  resHead,       \* res[0] of the current result (NoRow before it is read)
  lastRow,       \* history: the row handled last (NoRow after an empty result)
  dupSeen,       \* history: a data row with an id already in seen_ids was handled
  aggErr,        \* history: handling a unit result raised (logged at line 1098)
  \* BlackholeCreator.submit_blackholes_http, one call
  cpc,            \* "idle", "validate", "setup", "loop", "attempt", "append",
                  \* "returned", "raised"
  ip_list,        \* the ip_list argument (ips are named 1..n)
  ticket_number,  \* whether the ticket_number argument is non-empty
  autoclose_time, \* whether the autoclose_time argument is non-empty
  storage_state,  \* whether self.storage_state is truthy
  ipIdx,          \* index of the ip the for loop is at
  nAttempt,       \* the local variable attempt
  cresult,        \* the result dict of the ip the loop is at
  cresults,       \* the local list results
  cerr,           \* message of the exception the call raised ("" when none)
  tries,          \* history: what each POST for the current ip got
  posts,          \* history: number of req.post calls of the whole call
  \* BatchRemoval.batch_post_views._do_op, one call that is not aborted
  uOut,           \* what the portal gives to the POST of the unit
  uRes,           \* the dict _do_op returned (NoUnitRes before the call)
  \* BlackholeGUI.on_retrieve.fetch_ip, one call that is not aborted
  fOut,           \* what the portal gives to the request of the unit
  fRes,           \* the list fetch_ip returned (NoFetchRes before the call)
  \* BlackholeGUI.task_progress and the jobs that write it
  task_progress,  \* self.task_progress: key -> dict (NoProgress: key absent)
  jpc,            \* per job: "idle" or "running"
  jtotal,         \* per job: its local variable total
  jdone,          \* per job: its local variable processed
  progress_lock,  \* BlackholeGUI.progress_lock: the job holding it ("none" = free)
  \* BlackholeGUI.on_login.do_login and AuthManager
  lpc,            \* do_login: "idle", "auth", "ok", "failed", "env"
  creds,          \* do_login: the credentials the dialog returned
  environ,        \* os.environ: BH_HTTP_USER and BH_HTTP_PASS
  auth_config,    \* AuthManager.pw_config of the manager do_login made
  pw_config,      \* BlackholeGUI.pw_config
  logged_in,      \* BlackholeGUI.logged_in
  lastLogin,      \* history: the credentials of the last successful login
  \* RetrievalEngine._build_payload
  built,          \* the calls made, each with its filters argument (key ->
                  \* value, Absent: key not in the dict) and the endpoint
                  \* and payload it returned
  \* BlackholeGUI.session_logger
  session_logger  \* <<>> is None; else the one SessionLogger:
                  \*   queue: self._queue, the items not yet taken, oldest first
                  \*   stop_event: self._stop_event
                  \*   file: the entries written to the file at self.path
                  \*   writer: _writer_loop, its position and the item it holds
                  \*   closer: close(), "idle", "signalled" (stop set, sentinel
                  \*     not yet put), "joining" (sentinel put), "closed"
                  \*   hist: history, entries enqueued so far, entries enqueued
                  \*     and items queued when close() was called, entries
                  \*     whose write raised

batchVars == <<kind, ops, pc, ust, fres, taken, results, processed, aborted,
               abort_event, client, excText, started, raisedU, abortEver,
               runAtAbort, queuedAtAbort, cbCalls, cbRaised>>
disposeVars == <<dthr, dsnap, dpos, ndisp, relReq, relMgr, lastClose>>
clientVars == <<sessions, closed, owner, tlocal, tpc, tses, first, nextSid, lock,
                mgr, disposeVars>>
aggVars == <<aggregated, seen_ids, header_added, harvested, aggPc, rowsRead,
             resHead, lastRow, dupSeen, aggErr>>
execVars == <<cpc, ip_list, ticket_number, autoclose_time, storage_state, ipIdx,
              nAttempt, cresult, cresults, cerr, tries, posts, uOut, uRes, fOut, fRes>>
progVars == <<task_progress, jpc, jtotal, jdone, progress_lock>>
loginVars == <<lpc, creds, environ, auth_config, pw_config, logged_in, lastLogin>>
engineVars == <<built>>
logVars == <<session_logger>>
restVars == <<engineVars, logVars>>
guiVars == <<progVars, loginVars, restVars>>
vars == <<batchVars, clientVars, aggVars, execVars, guiVars>>

N == Len(ops)
Submitted == 1..N

Running == {i \in Submitted : ust[i] = "running"}
Queued == {i \in Submitted : ust[i] = "queued"}

Min(S) == CHOOSE x \in S : \A y \in S : x <= y

\* ThreadPoolExecutor: work items are taken first-in first-out by at most
\* Workers threads; cancelled futures are skipped.
CanTake(i) ==
  /\ pc \in {"submit", "harvest", "callback", "cancel", "exit", "unwind"}
  /\ Queued # {}
  /\ i = Min(Queued)
  /\ Cardinality(Running) < Workers

\* ThreadPoolExecutor.__exit__ = shutdown(wait=True): returns once every
\* submitted work item has run to completion or was cancelled.
PoolDrained == \A i \in Submitted : ust[i] \notin {"queued", "running"}

\* ------------------------------------------------------------- executors

\* Keyword arguments PlaywrightClient.post accepts, and the ones _do_op
\* passes to it.
PostSignature == {"path", "form", "timeout"}
DoOpKwargs == {"path", "params", "form", "timeout"}

\* Python's call binding: a keyword the callee does not declare raises
\* TypeError before the callee's body runs; otherwise the call proceeds and
\* gives what the transport gives.
CallOutcome(kwargs, signature, o) ==
  IF kwargs \subseteq signature
    THEN o
    ELSE [raised |-> TRUE, status |-> 0, err |-> "TypeError"]

\* Mutant of DoOpResult: the except branch does not keep str(e).
DoOpResultNoText(i, o) ==
  LET r == CallOutcome(DoOpKwargs, PostSignature, o) IN
  IF r.raised
    THEN Res(i, ops[i], FALSE, 0, "", "")
    ELSE Res(i, ops[i], 200 <= r.status /\ r.status < 400, r.status, "", "body")

\* BatchRemoval.batch_post_views._do_op after the abort check: the dict it
\* returns for the descriptor with id bh_id.
DoOpDict(bh_id, o) ==
  LET r == CallOutcome(DoOpKwargs, PostSignature, o) IN
  IF r.raised
    THEN [id |-> bh_id, success |-> FALSE, status |-> 0, text |-> r.err]
    ELSE [id |-> bh_id, success |-> 200 <= r.status /\ r.status < 400,
          status |-> r.status, text |-> "body"]

\* The same dict as the result of unit i of the batch.
DoOpResult(i, o) ==
  LET d == DoOpDict(ops[i], o) IN Res(i, d.id, d.success, d.status, "", d.text)

DoOpAborted(i) == Res(i, ops[i], FALSE, 0, "", "aborted")

\* BlackholeCreator.submit_blackholes_http, the retry loop for one IP: outs[k]
\* is what attempt k gets; status is result["status"] so far.
RECURSIVE RetryLoop(_, _, _)
RetryLoop(outs, attempt, status) ==
  LET o == outs[attempt]
      st == IF o.raised THEN status ELSE o.status
      failed == o.raised \/ st = 401 \/ st >= 400
  IN IF ~failed
       THEN [success |-> TRUE, status |-> st, text |-> "ok", attempts |-> attempt]
       ELSE IF attempt < MAX_RETRIES
              THEN RetryLoop(outs, attempt + 1, st)
              ELSE [success |-> FALSE, status |-> st, text |-> "Failed after",
                    attempts |-> attempt]

\* What submit_blackholes_http gives create_single_ip for its one IP: it
\* raises before the loop (Playwright start, request context), or it returns
\* the result dict the retry loop built from the outcomes of its attempts.
SubmitReturns ==
  {[raised |-> TRUE, success |-> FALSE, status |-> 0, text |-> "setup"]}
    \cup {LET r == RetryLoop(outs, 1, 0)
          IN [raised |-> FALSE, success |-> r.success, status |-> r.status,
              text |-> r.text] : outs \in [1..MAX_RETRIES -> Outcomes]}

\* BlackholeGUI.on_create_http.create_single_ip after the abort check, c being
\* what submit_blackholes_http gave: the error dict of the except branch, or
\* the dict of the IP with "idx" added.
CreateSingleIp(i, c) ==
  IF c.raised
    THEN Res(i, ops[i], FALSE, 0, "error", "setup")
    ELSE Res(i, ops[i], c.success, c.status, "", c.text)

CreateAborted(i) == Res(i, ops[i], FALSE, 0, "aborted", "")

\* BlackholeGUI.on_retrieve.fetch_ip after the abort check: the rows of the
\* unit ("rows") or the empty list ("empty"); any exception gives [].
FetchIp(i, o, hasRows) ==
  IF o.raised \/ o.status >= 400
    THEN Res(i, ops[i], FALSE, 0, "", "empty")
    ELSE Res(i, ops[i], hasRows, 0, "", IF hasRows THEN "rows" ELSE "empty")

FetchAborted(i) == Res(i, ops[i], FALSE, 0, "", "empty")

AbortedResult(i) ==
  CASE kind = "CREATE" -> CreateAborted(i)
    [] kind = "UPDATE" -> DoOpAborted(i)
    [] OTHER -> FetchAborted(i)

\* ---------------------------------------------------------------- Init

Init ==
  /\ kind = "NONE" /\ ops = <<>> /\ pc = "idle"
  /\ ust = [i \in Units |-> "none"]
  /\ fres = [i \in Units |-> NoRes]
  /\ taken = {} /\ results = <<>> /\ processed = 0 /\ aborted = FALSE
  /\ abort_event = FALSE /\ client = "none" /\ excText = ""
  /\ started = {} /\ raisedU = {} /\ abortEver = FALSE
  /\ runAtAbort = {} /\ queuedAtAbort = {}
  /\ cbCalls = <<>> /\ cbRaised = FALSE
  /\ sessions = <<>>
  /\ closed = [s \in 1..MaxSessions |-> FALSE]
  /\ owner = [s \in 1..MaxSessions |-> 0]
  /\ tlocal = [t \in 1..NumThreads |-> 0]
  /\ tpc = [t \in 1..NumThreads |-> "idle"]
  /\ tses = [t \in 1..NumThreads |-> 0]
  /\ first = [t \in 1..NumThreads |-> 0]
  /\ nextSid = 1
  /\ lock = 0
  /\ mgr = [t \in 1..NumThreads |-> "none"]
  /\ dthr = 0 /\ dsnap = <<>> /\ dpos = 0 /\ ndisp = 0
  /\ relReq = [s \in 1..MaxSessions |-> 0]
  /\ relMgr = [s \in 1..MaxSessions |-> 0]
  /\ lastClose = NoClose
  /\ cpc = "idle" /\ ip_list = <<>> /\ ticket_number = FALSE
  /\ autoclose_time = FALSE /\ storage_state = FALSE
  /\ ipIdx = 0 /\ nAttempt = 0 /\ cresult = NoCreateResult /\ cresults = <<>>
  /\ cerr = "" /\ tries = <<>> /\ posts = 0
  /\ uOut = NoAnswer /\ uRes = NoUnitRes
  /\ fOut = NoAnswer /\ fRes = NoFetchRes
  /\ task_progress = [k \in ProgressKeys |-> NoProgress]
  /\ jpc = [j \in Jobs |-> "idle"]
  /\ jtotal = [j \in Jobs |-> 0]
  /\ jdone = [j \in Jobs |-> 0]
  /\ progress_lock = "none"
  /\ lpc = "idle" /\ creds = NoCreds /\ environ = NoCreds
  /\ auth_config = NoConfig /\ pw_config = NoConfig
  /\ logged_in = FALSE /\ lastLogin = NoCreds
  /\ built = <<>> /\ session_logger = <<>>
  /\ aggregated = <<>> /\ seen_ids = {} /\ header_added = FALSE
  /\ harvested = 0 /\ aggPc = "wait" /\ rowsRead = 0 /\ aggErr = FALSE
  /\ resHead = NoRow /\ lastRow = NoRow /\ dupSeen = FALSE

\* The submitted lists: 1..MaxOps descriptors; from the third descriptor on an
\* id of the list occurs again.
IdAt(i) == IF i % 2 = 1 THEN "a" ELSE "b"
OpLists == {[i \in 1..n |-> IdAt(i)] : n \in 1..MaxOps}

cbVars == <<cbCalls, cbRaised>>
histVars == <<started, raisedU, abortEver, runAtAbort, queuedAtAbort, cbVars>>

\* ------------------------------------------------------- GUI handlers

\* on_create_http: clears the flag, starts run_create in a thread.
on_create_http(l) ==
  /\ pc = "idle"
  /\ kind' = "CREATE" /\ ops' = l /\ abort_event' = FALSE
  /\ pc' = "submit"
  /\ UNCHANGED <<ust, fres, taken, results, processed, aborted, client, excText,
                 histVars, clientVars, aggVars, execVars, guiVars>>

\* on_batch_set_description (and the other UPDATE handlers): clears the flag,
\* starts worker -> _execute_batch_operations -> batch_post_views.
on_batch_set_description(l) ==
  /\ pc = "idle"
  /\ kind' = "UPDATE" /\ ops' = l /\ abort_event' = FALSE
  /\ pc' = "setup"
  /\ UNCHANGED <<ust, fres, taken, results, processed, aborted, client, excText,
                 histVars, clientVars, aggVars, execVars, guiVars>>

\* on_retrieve with "IP Address": clears the flag, starts do_retrieve.
on_retrieve(l) ==
  /\ pc = "idle"
  /\ kind' = "RETRIEVE" /\ ops' = l /\ abort_event' = FALSE
  /\ pc' = "submit"
  /\ UNCHANGED <<ust, fres, taken, results, processed, aborted, client, excText,
                 histVars, clientVars, aggVars, execVars, guiVars>>

JobActive == pc \notin {"idle", "done"}

\* on_abort (Abort button, enabled while a job runs) / _auto_logout.
on_abort ==
  /\ JobActive
  /\ ~abort_event
  /\ abort_event' = TRUE
  /\ abortEver' = TRUE
  /\ runAtAbort' = IF abortEver THEN runAtAbort ELSE Running
  /\ queuedAtAbort' = IF abortEver THEN queuedAtAbort
                      ELSE {i \in Submitted : ust[i] \in {"none", "queued"}}
  /\ UNCHANGED <<kind, ops, pc, ust, fres, taken, results, processed, aborted,
                 client, excText, started, raisedU, cbVars, clientVars, aggVars, execVars, guiVars>>

\* The handler of another job (RETRIEVE, CREATE, UPDATE, Collect-IDs) started
\* from the GUI while this batch runs, or the finally block of another job
\* that ends meanwhile: each calls self.abort_event.clear() on the one Event.
other_job_clear ==
  /\ JobActive
  /\ abort_event
  /\ abort_event' = FALSE
  /\ UNCHANGED <<kind, ops, pc, ust, fres, taken, results, processed, aborted,
                 client, excText, histVars, clientVars, aggVars, execVars, guiVars>>

\* ------------------------------------------------------- orchestrator

\* batch_post_views lines 170-188: create the pooled client (inside the try).
create_client ==
  /\ pc = "setup"
  /\ \E fails \in BOOLEAN :
       IF fails
         THEN /\ excText' = "client init failed" /\ pc' = "except"
              /\ UNCHANGED client
         ELSE /\ client' = "open" /\ pc' = "submit"
              /\ UNCHANGED excText
  /\ UNCHANGED <<kind, ops, ust, fres, taken, results, processed, aborted,
                 abort_event, histVars, clientVars, aggVars, execVars, guiVars>>

\* Mutant of NextToSubmit: the first operation is handed to the pool again.
ResubmitFirst == Min(Units)

\* The operation the next executor.submit is for: each operation of the list
\* once, in list order.
NextToSubmit == Min({i \in Submitted : ust[i] = "none"})

\* executor.submit(...) for the next descriptor, in list order.  In
\* batch_post_views the submit is inside the try: when the pool cannot start a
\* thread the exception unwinds the with block and reaches the except branch.
submit ==
  /\ pc = "submit"
  /\ \E threadFails \in BOOLEAN :
       IF threadFails /\ kind = "UPDATE"
         THEN /\ excText' = "can't start new thread" /\ pc' = "unwind"
              /\ UNCHANGED ust
         ELSE /\ ust' = [ust EXCEPT ![NextToSubmit] = "queued"]
              /\ pc' = IF NextToSubmit = N THEN "harvest" ELSE "submit"
              /\ UNCHANGED excText
  /\ UNCHANGED <<kind, ops, fres, taken, results, processed, aborted,
                 abort_event, client, histVars, clientVars, aggVars, execVars, guiVars>>

\* A pool thread takes the next work item and its executor finds the flag
\* set: it returns the abort result without starting.
unit_skip(i) ==
  /\ CanTake(i)
  /\ abort_event
  /\ ust' = [ust EXCEPT ![i] = "done"]
  /\ fres' = [fres EXCEPT ![i] = AbortedResult(i)]
  /\ UNCHANGED <<kind, ops, pc, taken, results, processed, aborted, abort_event,
                 client, excText, histVars, clientVars, aggVars, execVars, guiVars>>

\* A pool thread takes the next work item, the flag is not set: the unit
\* starts (its request is in flight from here on).
unit_start(i) ==
  /\ CanTake(i)
  /\ ~abort_event
  /\ ust' = [ust EXCEPT ![i] = "running"]
  /\ started' = started \cup {i}
  /\ UNCHANGED <<kind, ops, pc, fres, taken, results, processed, aborted,
                 abort_event, client, excText, raisedU, abortEver, runAtAbort,
                 queuedAtAbort, cbVars, clientVars, aggVars, execVars, guiVars>>

\* The executor of a running unit returns; its value is stored in the future.
unit_finish(i) ==
  /\ i \in Submitted
  /\ ust[i] = "running"
  /\ ust' = [ust EXCEPT ![i] = "done"]
  /\ CASE kind = "CREATE" ->
            \E c \in SubmitReturns :
              /\ fres' = [fres EXCEPT ![i] = CreateSingleIp(i, c)]
              /\ raisedU' = IF c.raised THEN raisedU \cup {i} ELSE raisedU
       [] kind = "UPDATE" ->
            \E o \in Outcomes :
              /\ fres' = [fres EXCEPT ![i] = DoOpResult(i, o)]
              /\ raisedU' = IF CallOutcome(DoOpKwargs, PostSignature, o).raised
                              THEN raisedU \cup {i} ELSE raisedU
       [] OTHER ->
            \E o \in Outcomes, b \in BOOLEAN :
              /\ fres' = [fres EXCEPT ![i] = FetchIp(i, o, b)]
              /\ raisedU' = IF o.raised THEN raisedU \cup {i} ELSE raisedU
  /\ UNCHANGED <<kind, ops, pc, taken, results, processed, aborted, abort_event,
                 client, excText, started, abortEver, runAtAbort, queuedAtAbort,
                 cbVars, clientVars, aggVars, execVars, guiVars>>

\* as_completed yields a future that is done and was not yielded before.
Yieldable(i) ==
  /\ i \in Submitted
  /\ ust[i] \in {"done", "cancelled"}
  /\ i \notin taken

\* Mutant of LoopEnds: the loop stops one future early.
LoopEndsEarly(i) == Cardinality(taken \cup {i}) >= N - 1

\* as_completed is exhausted once every submitted future was yielded.
LoopEnds(i) == taken \cup {i} = Submitted

\* Mutant of CallbackGuarded: no try/except around the progress callback.
CallbackUnguarded == FALSE

\* batch_post_views lines 224-227: the progress callback runs inside try/except.
CallbackGuarded == TRUE

\* Mutant of CallbackArgs: the callback is called before processed += 1.
CallbackArgsStale(p, n) == <<p - 1, n>>

\* batch_post_views line 225: progress_callback(processed, total_ops).
CallbackArgs(p, n) == <<p, n>>

\* batch_post_views lines 214-225: one iteration of the harvest loop up to the
\* call of the progress callback: the result is appended, processed is
\* incremented, the callback is entered.
harvest_update(i) ==
  /\ pc = "harvest" /\ kind = "UPDATE"
  /\ Yieldable(i)
  /\ taken' = taken \cup {i}
  /\ results' = Append(results, fres[i])
  /\ processed' = processed + 1
  /\ cbCalls' = Append(cbCalls, CallbackArgs(processed + 1, N))
  /\ pc' = "callback"
  /\ UNCHANGED <<kind, ops, ust, fres, aborted, abort_event, client, excText,
                 started, raisedU, abortEver, runAtAbort, queuedAtAbort, cbRaised,
                 clientVars, aggVars, execVars, guiVars>>

\* batch_post_views lines 224-227 with progress_cb (lines 1554-1563): the
\* callback returns or raises; the loop goes on with the next future.  i is
\* the future of the current iteration.
progress_cb(i) ==
  /\ pc = "callback"
  /\ i \in taken /\ results[Len(results)].unit = i
  /\ \E cbRaises \in BOOLEAN :
       /\ cbRaised' = (cbRaised \/ cbRaises)
       /\ IF cbRaises /\ ~CallbackGuarded
            THEN pc' = "unwind" /\ excText' = "callback failed"
            ELSE /\ pc' = IF LoopEnds(i) THEN "exit" ELSE "harvest"
                 /\ UNCHANGED excText
  /\ UNCHANGED <<kind, ops, ust, fres, taken, results, processed, aborted,
                 abort_event, client, started, raisedU, abortEver, runAtAbort,
                 queuedAtAbort, cbCalls, clientVars, aggVars, execVars, guiVars>>

\* run_create lines 1300-1357: one iteration of the harvest loop.
harvest_create(i) ==
  /\ pc = "harvest" /\ kind = "CREATE"
  /\ Yieldable(i)
  /\ taken' = taken \cup {i}
  /\ IF abort_event
       THEN /\ aborted' = TRUE /\ pc' = "cancel"
            /\ UNCHANGED <<results, processed>>
       ELSE /\ results' = Append(results, fres[i])
            /\ processed' = Len(results) + 1
            /\ pc' = IF LoopEnds(i) THEN "exit" ELSE "harvest"
            /\ UNCHANGED aborted
  /\ UNCHANGED <<kind, ops, ust, fres, abort_event, client, excText, histVars,
                 clientVars, aggVars, execVars, guiVars>>

\* Mutant of CancelledBy: cancelling also stops a future that is running.
CancelAny(st) == IF st \in {"queued", "running"} THEN "cancelled" ELSE st

\* run_create lines 1359-1361: Future.cancel() on every future; only a future
\* that is still pending is cancelled.
CancelledBy(st) == IF st = "queued" THEN "cancelled" ELSE st

cancel_futures ==
  /\ pc = "cancel"
  /\ ust' = [i \in Units |-> CancelledBy(ust[i])]
  /\ pc' = "exit"
  /\ UNCHANGED <<kind, ops, fres, taken, results, processed, aborted,
                 abort_event, client, excText, histVars, clientVars, aggVars, execVars, guiVars>>

\* do_retrieve lines 1047-1098: one iteration of the harvest loop.
harvest_retrieve(i) ==
  /\ pc = "harvest" /\ kind = "RETRIEVE"
  /\ Yieldable(i)
  /\ taken' = taken \cup {i}
  /\ processed' = processed + 1
  /\ IF abort_event
       THEN /\ aborted' = TRUE /\ pc' = "exit"
            /\ UNCHANGED results
       ELSE /\ results' = IF fres[i].text = "rows"
                            THEN Append(results, fres[i]) ELSE results
            /\ pc' = IF LoopEnds(i) THEN "exit" ELSE "harvest"
            /\ UNCHANGED aborted
  /\ UNCHANGED <<kind, ops, ust, fres, abort_event, client, excText, histVars,
                 clientVars, aggVars, execVars, guiVars>>

\* End of the with block on the normal path.
pool_exit ==
  /\ pc = "exit"
  /\ PoolDrained
  /\ pc' = "returned"
  /\ UNCHANGED <<kind, ops, ust, fres, taken, results, processed, aborted,
                 abort_event, client, excText, histVars, clientVars, aggVars, execVars, guiVars>>

\* End of the with block while an exception propagates (batch_post_views).
pool_unwind ==
  /\ pc = "unwind"
  /\ PoolDrained
  /\ pc' = "except"
  /\ UNCHANGED <<kind, ops, ust, fres, taken, results, processed, aborted,
                 abort_event, client, excText, histVars, clientVars, aggVars, execVars, guiVars>>

RECURSIVE FailAll(_, _)
FailAll(k, text) ==
  IF k = 0 THEN <<>>
  ELSE Append(FailAll(k - 1, text), Res(k, ops[k], FALSE, 0, "", text))

\* batch_post_views lines 229-233: a failure entry for every operation.
except_branch ==
  /\ pc = "except"
  /\ results' = results \o FailAll(N, excText)
  /\ pc' = "returned"
  /\ UNCHANGED <<kind, ops, ust, fres, taken, processed, aborted, abort_event,
                 client, excText, histVars, clientVars, aggVars, execVars, guiVars>>

\* Mutant of SortByIdx: the list is left in completion order.
CompletionOrder(seq) == seq

\* results.sort(key=lambda r: r.get("idx", 0)) of run_create (stable).
RECURSIVE SortByIdx(_)
SortByIdx(seq) ==
  IF seq = <<>> THEN <<>>
  ELSE LET m == Min({seq[k].unit : k \in 1..Len(seq)})
           SelM(r) == r.unit = m
           SelRest(r) == r.unit # m
       IN SelectSeq(seq, SelM) \o SortByIdx(SelectSeq(seq, SelRest))

\* PlaywrightClient.dispose lines 161-168: every tracked session is closed
\* (_RequestSession.close sets closed) and the tracked list is cleared.
DisposedClosed == [s \in 1..MaxSessions |-> closed[s] \/ (\E k \in 1..Len(sessions) : sessions[k] = s)]
DisposedSessions == <<>>

\* BatchRemoval.close lines 239-245: the client reference after close().
EngineClose(c) == "none"

\* Mutant of FinallyRuns: the cleanup sits at the end of the try body.
FinallyOnlyOnSuccess(raised) == ~raised

\* Whether the finally block of the GUI worker runs: on every exit path.
FinallyRuns(raised) == TRUE

\* The rest of the GUI worker after the batch: the summary (which may raise),
\* then the finally block: eng.close() for UPDATE, abort_event.clear().
worker_finish ==
  /\ pc = "returned"
  /\ \E raised \in BOOLEAN :
       /\ results' = IF kind = "CREATE" /\ ~raised THEN SortByIdx(results) ELSE results
       /\ IF FinallyRuns(raised)
            THEN /\ client' = IF kind = "UPDATE" THEN EngineClose(client) ELSE client
                 /\ IF kind = "UPDATE" /\ client = "open"
                      THEN sessions' = DisposedSessions /\ closed' = DisposedClosed
                      ELSE UNCHANGED <<sessions, closed>>
                 /\ abort_event' = FALSE
            ELSE UNCHANGED <<client, abort_event, sessions, closed>>
  /\ pc' = "done"
  /\ UNCHANGED <<kind, ops, ust, fres, taken, processed, aborted, excText,
                 histVars, owner, tlocal, tpc, tses, first, nextSid, lock,
                 mgr, disposeVars, aggVars, execVars, guiVars>>

Next ==
  \/ \E l \in OpLists : on_create_http(l)
  \/ \E l \in OpLists : on_batch_set_description(l)
  \/ \E l \in OpLists : on_retrieve(l)
  \/ on_abort
  \/ other_job_clear
  \/ create_client
  \/ submit
  \/ \E i \in Units : unit_skip(i)
  \/ \E i \in Units : unit_start(i)
  \/ \E i \in Units : unit_finish(i)
  \/ \E i \in Units : harvest_update(i)
  \/ \E i \in Units : progress_cb(i)
  \/ \E i \in Units : harvest_create(i)
  \/ \E i \in Units : harvest_retrieve(i)
  \/ cancel_futures
  \/ pool_exit
  \/ pool_unwind
  \/ except_branch
  \/ worker_finish

Spec == Init /\ [][Next]_vars

\* ------------------------------------------------------------------------
\* Properties of the batch engine
\* ------------------------------------------------------------------------

ResultUnits == {results[k].unit : k \in 1..Len(results)}
EntriesOf(i) == {k \in 1..Len(results) : results[k].unit = i}
BatchReturned == pc \in {"returned", "done"}
AbortTagged(r) == r.word = "aborted" \/ r.text = "aborted"
ErrorTexts == {"TypeError", "transport", "setup"}

C2_Isolation ==
  (BatchReturned /\ kind \in {"CREATE", "UPDATE"} /\ ~abortEver /\ excText = "") =>
    /\ Len(results) = N
    /\ \A i \in Submitted :
         /\ Cardinality(EntriesOf(i)) = 1
         /\ \A k \in EntriesOf(i) :
              /\ results[k] = fres[i]
              /\ i \in raisedU =>
                   (~results[k].success /\ results[k].text \in ErrorTexts)

C2_Witness ==
  /\ pc = "returned" /\ kind = "CREATE" /\ ~abortEver /\ N = 3
  /\ 1 \in raisedU /\ 2 \notin raisedU /\ fres[2].success
  /\ results[1].unit = 1 /\ ~results[1].success
  /\ results[2].unit = 2 /\ results[2].success

\* C3: a unit that had not started when the abort flag was set never begins
\* execution.
C3_NoStartAfterAbort == queuedAtAbort \cap started = {}

\* C4: a unit that was running when the abort flag was set has its result in
\* the final collection (for RETRIEVE: its rows, when it has any).
C4_StartedKept ==
  pc = "done" =>
    \A i \in runAtAbort :
      (kind = "RETRIEVE" /\ fres[i].text # "rows") \/ i \in ResultUnits

\* C5: after an abort the final list of a CREATE or UPDATE batch still has N
\* entries: an abort-tagged failure for every unit that never started, the
\* real result for every unit that ran.
C5_AbortKeepsN ==
  (pc = "done" /\ kind \in {"CREATE", "UPDATE"} /\ abortEver /\ excText = "") =>
    /\ Len(results) = N
    /\ \A i \in Submitted :
         \E k \in EntriesOf(i) :
           IF i \in started THEN results[k] = fres[i]
           ELSE ~results[k].success /\ AbortTagged(results[k])

\* C6: abort is cooperative: a unit that has started is never cancelled or
\* replaced by an abort result, it returns what its executor returns; and the
\* pool is not shut down, nor the worker finished, while a unit is running.
C6_Cooperative ==
  /\ \A i \in started :
       /\ ust[i] \in {"running", "done"}
       /\ (ust[i] = "done" /\ kind # "RETRIEVE") => ~AbortTagged(fres[i])
  /\ pc \in {"except", "returned", "done"} => Running = {}

C6_Witness ==
  /\ pc = "done" /\ kind = "CREATE" /\ aborted
  /\ runAtAbort # {} /\ queuedAtAbort # {}
  /\ \A i \in runAtAbort : ust[i] = "done" /\ fres[i].success

\* C7: batch_post_views never returns more than N entries nor two entries
\* for one operation; when the client construction or the start of the pool
\* fails it returns exactly one entry per operation, each success = false,
\* status 0, with the text of that error.
C7_SetupFailure ==
  kind = "UPDATE" =>
    /\ Len(results) <= N
    /\ \A i \in Submitted : Cardinality(EntriesOf(i)) <= 1
    /\ (BatchReturned /\ excText # "") =>
         /\ Len(results) = N
         /\ \A k \in 1..N : results[k] = Res(k, ops[k], FALSE, 0, "", excText)

C7_Witness ==
  /\ kind = "UPDATE" /\ pc = "returned" /\ N = 3
  /\ excText = "can't start new thread"
  /\ started # {}

\* C9: when the worker of an UPDATE batch has finished, on whatever path, the
\* engine's client reference is cleared, no session is tracked and every
\* session that was created is closed.
C9_Released ==
  (kind = "UPDATE" /\ pc = "done") =>
    /\ client = "none"
    /\ sessions = <<>>
    /\ \A s \in 1..MaxSessions : owner[s] # 0 => closed[s]

C9_Witness ==
  /\ kind = "UPDATE" /\ pc = "done" /\ excText = "" /\ N = 3
  /\ Len(results) = 3 /\ abortEver

\* C14: in an UPDATE batch the progress callback is called once for every
\* harvested result, the k-th call with processed = k and total = N; a call
\* is made only while no other call is in progress; a call that raises
\* neither ends the harvest loop nor costs a result.
C14_Progress ==
  /\ [](kind = "UPDATE" =>
          /\ \A k \in 1..Len(cbCalls) : cbCalls[k] = <<k, N>>
          /\ excText = "" => Len(cbCalls) = Len(results)
          /\ (BatchReturned /\ excText = "") => Len(results) = N)
  /\ [][Len(cbCalls') > Len(cbCalls) =>
          (pc # "callback" /\ pc' = "callback" /\ Len(cbCalls') = Len(cbCalls) + 1)]_vars

C14_Witness ==
  /\ kind = "UPDATE" /\ pc = "returned" /\ N = 3 /\ cbRaised
  /\ Len(cbCalls) = 3 /\ cbCalls[3] = <<3, 3>> /\ Len(results) = 3

\* The worker count of every CPU count: between 1 and 16, 4 when the count
\* is unknown, else twice the count capped at 16.
WorkerCountInRange ==
  \A c \in CpuCounts :
    /\ WorkerCount(c) \in 1..16
    /\ WorkerCount(c) = IF c = 0 THEN 4 ELSE IF 2 * c > 16 THEN 16 ELSE 2 * c

\* C15: at every moment of a batch the number of running units is at most
\* the worker count, and the worker count is min(16, max(1, 2 x CPU count))
\* (CPU count 2 when unknown), between 1 and 16 for every CPU count.
C15_WorkerBound ==
  /\ Cardinality(Running) <= Workers
  /\ WorkerCountInRange

C15_Witness ==
  /\ N = 3 /\ Cardinality(Running) = Workers /\ Queued # {}
  /\ pc = "harvest"

\* C33: while a running batch still has units that have not started, no step
\* takes the abort flag from set to clear.
C33_FlagStays ==
  [][(abort_event /\ JobActive /\ (\E i \in Submitted : ust[i] \in {"none", "queued"}))
       => abort_event']_vars

NextUpdate ==
  \/ \E l \in OpLists : on_batch_set_description(l)
  \/ on_abort
  \/ other_job_clear
  \/ create_client
  \/ submit
  \/ \E i \in Units : unit_skip(i)
  \/ \E i \in Units : unit_start(i)
  \/ \E i \in Units : unit_finish(i)
  \/ \E i \in Units : harvest_update(i)
  \/ \E i \in Units : progress_cb(i)
  \/ pool_exit
  \/ pool_unwind
  \/ except_branch
  \/ worker_finish

SpecUpdate == Init /\ [][NextUpdate]_vars

\* C32: in an UPDATE batch the future of an operation goes from submitted to
\* one _do_op invocation (skipped on abort, or started) to done, and never
\* back: no operation is invoked twice or retried, its result is stored once
\* and comes from the abort branch or from the one call of client.post; when
\* batch_post_views has returned, every operation that was submitted has been
\* invoked, also operations that carry the same id.
C32_OnceEach ==
  /\ [][\A i \in Units :
          /\ ust[i] = "none" => ust'[i] \in {"none", "queued"}
          /\ ust[i] = "queued" => ust'[i] \in {"queued", "running", "done"}
          /\ ust[i] = "running" => ust'[i] \in {"running", "done"}
          /\ ust[i] = "done" => (ust'[i] = "done" /\ fres'[i] = fres[i])
          /\ (ust[i] # "running" /\ ust'[i] = "running") => i \notin started]_vars
  /\ [](\A i \in Submitted :
          /\ ust[i] = "done" =>
               fres[i] \in {DoOpAborted(i)} \cup {DoOpResult(i, o) : o \in Outcomes}
          /\ (BatchReturned /\ ust[i] # "none") => ust[i] = "done")

C32_Witness ==
  /\ kind = "UPDATE" /\ pc = "returned" /\ N = 3 /\ ops[1] = ops[3]
  /\ \A i \in Submitted : ust[i] = "done"
  /\ 1 \in started /\ 3 \notin started

\* str(...).lower() on the texts a result dict can carry.
Lower(t) == IF t = "TypeError" THEN "typeerror" ELSE t

CountOf(res, Sel(_)) == Cardinality({k \in 1..Len(res) : Sel(res[k])})

\* Mutant of SummaryOf: an entry with status 0 and no success counts as aborted.
SummaryByStatus(res, total) ==
  LET IsOk(r) == r.success
      IsAb(r) == ~r.success /\ r.status = 0
      f == Len(res) - CountOf(res, IsOk) - CountOf(res, IsAb)
  IN [success |-> CountOf(res, IsOk), failure |-> IF f < 0 THEN 0 ELSE f,
      aborted |-> CountOf(res, IsAb), processed |-> Len(res), total |-> total]

\* _execute_batch_operations lines 1585-1619: the summary of the result list
\* batch_post_views returned for total operations.  An entry counts as
\* aborted when its text, lower-cased, is "aborted"; failure is what is left,
\* not below 0.
SummaryOf(res, total) ==
  LET IsOk(r) == r.success
      IsAb(r) == Lower(r.text) = "aborted"
      f == Len(res) - CountOf(res, IsOk) - CountOf(res, IsAb)
  IN [success |-> CountOf(res, IsOk), failure |-> IF f < 0 THEN 0 ELSE f,
      aborted |-> CountOf(res, IsAb), processed |-> Len(res), total |-> total]

\* The units _do_op skipped because it found the abort flag set.
Skipped == {i \in Submitted : ust[i] = "done" /\ i \notin started}

SummaryAddsUp(sm) ==
  /\ sm.processed = Len(results) /\ sm.processed <= sm.total
  /\ sm.success + sm.failure + sm.aborted = sm.processed

\* C34 as stated: for every UPDATE batch the summary has processed = number
\* of results <= total, success + failure + aborted = processed, and aborted
\* is the number of units skipped because the abort flag was set.
C34_SummaryAll ==
  (kind = "UPDATE" /\ BatchReturned) =>
    LET sm == SummaryOf(results, N) IN
      SummaryAddsUp(sm) /\ sm.aborted = Cardinality(Skipped)

\* C34 amended: the counts add up for every UPDATE batch, and no unit that was
\* started is counted as aborted; aborted is the number of skipped units when
\* batch_post_views met no batch-level failure, and 0 when it did (its
\* result list then holds the failure entries of the except branch only).
C34_Summary ==
  (kind = "UPDATE" /\ BatchReturned) =>
    LET sm == SummaryOf(results, N) IN
      /\ SummaryAddsUp(sm)
      /\ sm.aborted = IF excText = "" THEN Cardinality(Skipped) ELSE 0
      /\ \A k \in 1..Len(results) :
           (excText = "" /\ results[k].unit \in started) =>
             Lower(results[k].text) # "aborted"

C34_Witness ==
  /\ kind = "UPDATE" /\ pc = "returned" /\ N = 3 /\ excText = ""
  /\ Cardinality(Skipped) = 1 /\ Cardinality(started) = 2
  /\ SummaryOf(results, N) =
       [success |-> 0, failure |-> 2, aborted |-> 1, processed |-> 3, total |-> 3]

\* ------------------------------------------------------------------------
\* PlaywrightClient: get()/post() called from NumThreads threads
\* ------------------------------------------------------------------------

Threads == 1..NumThreads

\* Mutant of Slot: a plain attribute, one slot shared by all threads.
SlotShared(t) == 1

\* threading.local(): the slot of self._thread_local.session a thread sees.
Slot(t) == t

\* _get_session lines 139-141: the calling thread's session when it has one
\* that is not closed, else 0.
Reusable(t) ==
  IF tlocal[Slot(t)] # 0 /\ ~closed[tlocal[Slot(t)]] THEN tlocal[Slot(t)] ELSE 0

\* get()/post() -> _get_request_context -> _get_session: reuse the thread's
\* session, or go on to _create_session.
call_begin(t) ==
  /\ tpc[t] = "idle"
  /\ dthr = 0
  /\ IF Reusable(t) # 0
       THEN /\ tses' = [tses EXCEPT ![t] = Reusable(t)]
            /\ tpc' = [tpc EXCEPT ![t] = "request"]
            /\ UNCHANGED mgr
       ELSE /\ tpc' = [tpc EXCEPT ![t] = "creating"]
            /\ mgr' = [mgr EXCEPT ![t] = "open"]
            /\ UNCHANGED tses
  /\ UNCHANGED <<batchVars, aggVars, execVars, guiVars, sessions, closed, owner, tlocal, first, nextSid, lock,
                 disposeVars>>

\* Mutant of ExitsOnFailure: the except branch only re-raises.
LeaksOnFailure == FALSE

\* _create_session lines 124-130: the except branch calls manager.__exit__
\* (an exception of that call is logged and dropped) before it re-raises.
ExitsOnFailure == TRUE

\* _create_session lines 119-130: entering Playwright or new_context raises;
\* the manager is exited and the exception leaves get()/post().
create_fails(t) ==
  /\ tpc[t] = "creating"
  /\ tpc' = [tpc EXCEPT ![t] = "idle"]
  /\ mgr' = [mgr EXCEPT ![t] = IF ExitsOnFailure THEN "exited" ELSE "open"]
  /\ UNCHANGED <<batchVars, aggVars, execVars, guiVars, sessions, closed, owner, tlocal, tses, first, nextSid, lock,
                 disposeVars>>

\* _create_session line 132: the _RequestSession object is built.
create_ok(t) ==
  /\ tpc[t] = "creating"
  /\ nextSid <= MaxSessions
  /\ owner' = [owner EXCEPT ![nextSid] = t]
  /\ tses' = [tses EXCEPT ![t] = nextSid]
  /\ nextSid' = nextSid + 1
  /\ tpc' = [tpc EXCEPT ![t] = "built"]
  /\ UNCHANGED <<batchVars, aggVars, execVars, guiVars, sessions, closed, tlocal, first, lock, mgr, disposeVars>>

\* _create_session lines 133-134: with self._lock: self._sessions.append.
track_session(t) ==
  /\ tpc[t] = "built"
  /\ lock = 0
  /\ lock' = t
  /\ sessions' = Append(sessions, tses[t])
  /\ tpc' = [tpc EXCEPT ![t] = "tracked"]
  /\ UNCHANGED <<batchVars, aggVars, execVars, guiVars, closed, owner, tlocal, tses, first, nextSid, mgr,
                 disposeVars>>

\* Mutant of LockAfterAppend: the lock is kept for the rest of the call.
LockKept(t) == t

\* _create_session lines 133-134: the holder of self._lock once the with
\* block around self._sessions.append has ended (0 = free).
LockAfterAppend(t) == 0

\* _create_session lines 134-136: the lock is released, the session is stored
\* in the thread-local slot and returned.
publish_session(t) ==
  /\ tpc[t] = "tracked"
  /\ lock = t
  /\ lock' = LockAfterAppend(t)
  /\ tlocal' = [tlocal EXCEPT ![Slot(t)] = tses[t]]
  /\ tpc' = [tpc EXCEPT ![t] = "request"]
  /\ UNCHANGED <<batchVars, aggVars, execVars, guiVars, sessions, closed, owner, tses, first, nextSid, mgr,
                 disposeVars>>

\* ctx.get / ctx.post on session.request returns or raises: the call is over.
call_end(t) ==
  /\ tpc[t] = "request"
  /\ tpc' = [tpc EXCEPT ![t] = "idle"]
  /\ first' = [first EXCEPT ![t] = IF first[t] = 0 THEN tses[t] ELSE first[t]]
  /\ tses' = [tses EXCEPT ![t] = 0]
  /\ UNCHANGED <<batchVars, aggVars, execVars, guiVars, sessions, closed, owner, tlocal, nextSid, lock, mgr,
                 disposeVars>>

NextClient ==
  \/ \E t \in Threads : call_begin(t)
  \/ \E t \in Threads : create_fails(t)
  \/ \E t \in Threads : create_ok(t)
  \/ \E t \in Threads : track_session(t)
  \/ \E t \in Threads : publish_session(t)
  \/ \E t \in Threads : call_end(t)

SpecClient == Init /\ [][NextClient]_vars

InRequest(t) == tpc[t] = "request"
OpenTrackedOf(t) ==
  {k \in 1..Len(sessions) : owner[sessions[k]] = t /\ ~closed[sessions[k]]}

\* C10: with no dispose, the channel a thread's call is served by was built
\* by that thread and is served to no other thread; every call of a thread
\* is served by the channel its first call got; the tracked list holds at
\* most one open session per thread.
C10_ThreadChannel ==
  /\ \A t \in Threads :
       InRequest(t) =>
         /\ tses[t] # 0 /\ owner[tses[t]] = t
         /\ first[t] # 0 => tses[t] = first[t]
         /\ \A u \in Threads \ {t} :
              /\ first[u] # tses[t]
              /\ InRequest(u) => tses[u] # tses[t]
  /\ \A t \in Threads : Cardinality(OpenTrackedOf(t)) <= 1

C10_Witness ==
  /\ \A t \in Threads : InRequest(t) /\ first[t] # 0 /\ tses[t] = first[t]
  /\ Len(sessions) = NumThreads

\* ------------------------------------------------------------------------
\* PlaywrightClient.dispose() and _RequestSession.close()
\* ------------------------------------------------------------------------

\* Mutant of suppress_cleanup_warning: nothing is recognised as benign.
SuppressNothing(msg) == FALSE

\* suppress_cleanup_warning: the message contains one of the two texts of a
\* harmless shutdown race.
suppress_cleanup_warning(msg) ==
  "Event loop is closed" \in msg \/ "already stopped" \in msg

\* The logger.warning records of one close(): one for request.dispose() and
\* one for manager.__exit__(), each only when it raised something that is not
\* suppressed (otherwise logger.debug).
Warnings(er, em) ==
  (IF er # NoError /\ ~suppress_cleanup_warning(er) THEN {"request"} ELSE {})
    \cup (IF em # NoError /\ ~suppress_cleanup_warning(em) THEN {"manager"} ELSE {})

\* Mutant of ClearedList: dispose() copies the tracked list and keeps it.
KeptList(seq) == seq

\* dispose() line 163: self._sessions.clear().
ClearedList(seq) == <<>>

\* dispose() lines 161-163: under the lock, copy the tracked list and clear it.
\* dispose() is called through BatchRemoval.close() by the thread that ran the
\* batch, after the pool's with block has joined every worker: no get()/post()
\* is in progress, and none begins before dispose() has returned.
dispose_begin(t) ==
  /\ \A u \in Threads : tpc[u] = "idle"
  /\ dthr = 0
  /\ lock = 0
  /\ ndisp < MaxDisposes
  /\ dthr' = t
  /\ dsnap' = sessions
  /\ sessions' = ClearedList(sessions)
  /\ dpos' = 0
  /\ ndisp' = ndisp + 1
  /\ UNCHANGED <<batchVars, aggVars, execVars, guiVars, closed, owner, tlocal, tpc, tses, first, nextSid, lock,
                 mgr, relReq, relMgr, lastClose>>

\* dispose() lines 164-168, one iteration: session.close().  close() returns
\* at once when the session is closed; else it calls request.dispose(), then
\* in its finally manager.__exit__(), and sets closed; what either call raises
\* is logged inside close().
dispose_close(t) ==
  /\ dthr = t
  /\ dpos < Len(dsnap)
  /\ dpos' = dpos + 1
  /\ LET s == dsnap[dpos + 1] IN
       IF closed[s]
         THEN UNCHANGED <<closed, relReq, relMgr, lastClose>>
         ELSE \E er \in Messages \cup {NoError}, em \in Messages \cup {NoError} :
                /\ relReq' = [relReq EXCEPT ![s] = @ + 1]
                /\ relMgr' = [relMgr EXCEPT ![s] = @ + 1]
                /\ closed' = [closed EXCEPT ![s] = TRUE]
                /\ lastClose' = IF er = NoError /\ em = NoError THEN lastClose
                                ELSE [sid |-> s, reqErr |-> er, mgrErr |-> em,
                                      warned |-> Warnings(er, em)]
  /\ UNCHANGED <<batchVars, aggVars, execVars, guiVars, sessions, owner, tlocal, tpc, tses, first, nextSid,
                 lock, mgr, dthr, dsnap, ndisp>>

\* dispose() lines 169-174: the calling thread's slot is deleted.
dispose_end(t) ==
  /\ dthr = t
  /\ dpos = Len(dsnap)
  /\ tlocal' = [tlocal EXCEPT ![Slot(t)] = 0]
  /\ dthr' = 0
  /\ lastClose' = NoClose
  /\ UNCHANGED <<batchVars, aggVars, execVars, guiVars, sessions, closed, owner, tpc, tses, first, nextSid,
                 lock, mgr, dsnap, dpos, ndisp, relReq, relMgr>>

NextDispose ==
  \/ NextClient
  \/ \E t \in Threads : dispose_begin(t)
  \/ \E t \in Threads : dispose_close(t)
  \/ \E t \in Threads : dispose_end(t)

SpecDispose == Init /\ [][NextDispose]_vars

\* ------------------------------------------------------------------------
\* Properties of the pooled client
\* ------------------------------------------------------------------------

SnapshotOf == {dsnap[k] : k \in 1..Len(dsnap)}
BenignTexts == {"already stopped", "Event loop is closed"}

\* C11: dispose() takes every session tracked at the call and leaves the
\* tracked list empty; when it has returned every session it took is closed;
\* a dispose() that finds no tracked session closes nothing and changes
\* neither the tracked list, nor a closed flag, nor the session any thread
\* would reuse; request.dispose() and manager.__exit__() are called at most
\* once per session.
C11_DisposeIdempotent ==
  /\ [](/\ \A s \in 1..MaxSessions : relReq[s] <= 1 /\ relMgr[s] <= 1
        /\ dthr = 0 => \A s \in SnapshotOf : closed[s])
  /\ [][(dthr = 0 /\ dthr' # 0) => (dsnap' = sessions /\ sessions' = <<>>)]_vars
  /\ [][(dthr' # dthr /\ dsnap' = <<>>) =>
          /\ sessions' = sessions /\ closed' = closed
          /\ relReq' = relReq /\ relMgr' = relMgr
          /\ \A u \in Threads : Reusable(u)' = Reusable(u)]_vars

C11_Witness ==
  /\ ndisp = 2 /\ dthr = 0 /\ dsnap = <<>> /\ sessions = <<>>
  /\ Cardinality({s \in 1..MaxSessions : closed[s] /\ relReq[s] = 1 /\ relMgr[s] = 1}) >= 2

\* C12: a close() in which request.dispose() or manager.__exit__() raised
\* leaves a warning exactly for what was raised with a message that contains
\* neither "already stopped" nor "Event loop is closed"; the session is
\* marked closed, its manager was exited, and when the loop of dispose()
\* has ended every session it took is closed.
C12_CloseFailure ==
  /\ lastClose.sid # 0 =>
       /\ closed[lastClose.sid]
       /\ relMgr[lastClose.sid] = 1
       /\ "request" \in lastClose.warned <=>
            (lastClose.reqErr # NoError /\ lastClose.reqErr \cap BenignTexts = {})
       /\ "manager" \in lastClose.warned <=>
            (lastClose.mgrErr # NoError /\ lastClose.mgrErr \cap BenignTexts = {})
  /\ (lastClose.sid # 0 /\ dpos = Len(dsnap)) => \A s \in SnapshotOf : closed[s]

C12_Witness ==
  /\ dthr # 0 /\ dpos = 2 /\ Len(dsnap) = 2 /\ lastClose.sid = dsnap[1]
  /\ lastClose.reqErr = {"Connection closed"} /\ lastClose.warned = {"request"}
  /\ \A s \in SnapshotOf : closed[s] /\ relMgr[s] = 1

\* C13: a _create_session that fails in thread t leaves the tracked list,
\* every thread's slot, every closed flag and every built session as they
\* were, the manager opened for the attempt is exited, and the session every
\* other thread would reuse is the same as before; a thread that has a
\* session is still served by it, open.
C13_FailureFrame ==
  /\ [][\A t \in Threads :
          (tpc[t] = "creating" /\ tpc'[t] = "idle") =>
            /\ sessions' = sessions /\ tlocal' = tlocal
            /\ closed' = closed /\ owner' = owner
            /\ mgr'[t] = "exited"
            /\ \A u \in Threads \ {t} : Reusable(u)' = Reusable(u)]_vars
  /\ [](\A u \in Threads :
          (InRequest(u) /\ first[u] # 0) => (tses[u] = first[u] /\ ~closed[tses[u]]))

C13_Witness ==
  \E t \in Threads, u \in Threads :
    /\ t # u
    /\ mgr[t] = "exited" /\ tpc[t] = "idle" /\ tlocal[t] = 0
    /\ InRequest(u) /\ first[u] # 0 /\ tses[u] = first[u] /\ ~closed[tses[u]]

\* ------------------------------------------------------------------------
\* do_retrieve: aggregation of the unit results of a multi-IP RETRIEVE
\* ------------------------------------------------------------------------

\* A string is modelled as the sequence of its characters.
IdName == <<"I", "D">>
IpName == <<"I", "P">>
One == <<"1">>
Two == <<"2">>
PaddedOne == <<" ", "1">>
EmptyText == <<>>

\* str.strip(): leading and trailing blanks removed.
RECURSIVE LStrip(_)
LStrip(str) ==
  IF str # <<>> /\ Head(str) = " " THEN LStrip(Tail(str)) ELSE str

RECURSIVE RStrip(_)
RStrip(str) ==
  IF str # <<>> /\ str[Len(str)] = " "
    THEN RStrip(SubSeq(str, 1, Len(str) - 1)) ELSE str

Strip(str) == RStrip(LStrip(str))

\* The rows _parse_tables_in_page emits: {"header": True, "cells": headers}
\* for the th row of a table, {"cells": cells} for a tr with a non-empty td.
HeaderRow(cells) == [header |-> TRUE, cells |-> cells]
DataRow(cells) == [header |-> FALSE, cells |-> cells]

HeaderRows == {HeaderRow(<<IdName, IpName>>), HeaderRow(<<IpName, IdName>>)}
DataRows == {DataRow(<<One, One>>), DataRow(<<One, Two>>), DataRow(<<Two, One>>),
             DataRow(<<PaddedOne, One>>), DataRow(<<EmptyText, One>>)}

\* _parse_tables_in_page line 157: the one row of the result when no table
\* gave a row.
SentinelRow == DataRow(<<>>)

\* Mutant of CellsTruthy: the row is handled whatever its cells.
CellsAny(cells) == TRUE

\* do_retrieve line 1085: row.get("cells") is truthy.
CellsTruthy(cells) == cells # <<>>

\* Mutant of IsNewId: the id is not looked up in seen_ids.
IsNonEmptyId(id, seen) == id # <<>>

\* do_retrieve line 1089: row_id and row_id not in seen_ids.
IsNewId(id, seen) == id # <<>> /\ id \notin seen

\* do_retrieve lines 1084-1091, the loop over res[start_idx:]: st is the
\* aggregation state.  cells[0] of an empty list raises IndexError, which
\* leaves the loop (except at line 1097).
RECURSIVE AggRows(_, _)
AggRows(st, rows) ==
  IF rows = <<>> THEN st
  ELSE LET row == Head(rows) IN
       IF ~CellsTruthy(row.cells) THEN AggRows(st, Tail(rows))
       ELSE IF row.cells = <<>> THEN [st EXCEPT !.err = TRUE]
       ELSE LET row_id == Strip(row.cells[1]) IN
            IF IsNewId(row_id, st.seen)
              THEN AggRows([st EXCEPT !.seen = @ \cup {row_id},
                                      !.agg = Append(@, row)], Tail(rows))
              ELSE AggRows(st, Tail(rows))

\* do_retrieve lines 1074-1096: one unit result is folded into the aggregate.
AggregateResult(st, res) ==
  IF res = <<>> THEN st
  ELSE IF res[1].header
         THEN AggRows([st EXCEPT !.agg = IF st.hdr THEN @ ELSE Append(@, res[1]),
                                 !.hdr = TRUE], Tail(res))
         ELSE AggRows(st, res)

AggState == [agg |-> aggregated, seen |-> seen_ids, hdr |-> header_added, err |-> aggErr]

\* Whether the row is a data row whose id is already in seen_ids.
IsDup(row) ==
  ~row.header /\ row.cells # <<>> /\ Strip(row.cells[1]) \in seen_ids

\* do_retrieve lines 1047-1074 without abort: as_completed yields the next
\* future, whichever unit it is, and processed is incremented.  fetch_ip
\* returned [] (abort, exception): `if res` is false, nothing is folded.
agg_yield_empty ==
  /\ aggPc = "wait"
  /\ harvested < MaxUnits
  /\ harvested' = harvested + 1
  /\ rowsRead' = 0 /\ resHead' = NoRow /\ lastRow' = NoRow
  /\ UNCHANGED <<batchVars, clientVars, execVars, guiVars, aggregated, seen_ids, header_added, aggPc,
                 dupSeen, aggErr>>

\* The same with a result that has rows.
agg_yield ==
  /\ aggPc = "wait"
  /\ harvested < MaxUnits
  /\ harvested' = harvested + 1
  /\ rowsRead' = 0 /\ resHead' = NoRow /\ lastRow' = NoRow
  /\ aggPc' = "first"
  /\ UNCHANGED <<batchVars, clientVars, execVars, guiVars, aggregated, seen_ids, header_added,
                 dupSeen, aggErr>>

\* do_retrieve lines 1076-1091 for res[0]: a header row is appended unless
\* one was appended before and the loop starts at index 1; any other row is
\* the first row of the loop.  The parser's results start with a header row,
\* a data row, or are the sentinel alone.
agg_first(row) ==
  /\ aggPc = "first"
  /\ LET st == AggregateResult(AggState, <<row>>) IN
       /\ aggregated' = st.agg
       /\ seen_ids' = st.seen
       /\ header_added' = st.hdr
       /\ aggErr' = st.err
  /\ resHead' = row /\ lastRow' = row
  /\ dupSeen' = (dupSeen \/ IsDup(row))
  /\ rowsRead' = 1
  /\ aggPc' = "rows"
  /\ UNCHANGED <<batchVars, clientVars, execVars, guiVars, harvested>>

\* do_retrieve lines 1084-1091: one more iteration of the loop over the rows,
\* for a result that has a further row.
agg_row(row) ==
  /\ aggPc = "rows"
  /\ resHead # SentinelRow
  /\ ~aggErr
  /\ rowsRead < MaxRows
  /\ LET st == AggRows(AggState, <<row>>) IN
       /\ aggregated' = st.agg
       /\ seen_ids' = st.seen
       /\ header_added' = st.hdr
       /\ aggErr' = st.err
  /\ lastRow' = row
  /\ dupSeen' = (dupSeen \/ IsDup(row))
  /\ rowsRead' = rowsRead + 1
  /\ UNCHANGED <<batchVars, clientVars, execVars, guiVars, harvested, aggPc, resHead>>

\* The loop over the rows ends (or an exception left it, line 1097).
agg_end ==
  /\ aggPc = "rows"
  /\ aggPc' = "wait"
  /\ UNCHANGED <<batchVars, clientVars, execVars, guiVars, aggregated, seen_ids, header_added,
                 harvested, rowsRead, resHead, lastRow, dupSeen, aggErr>>

NextAgg ==
  \/ agg_yield_empty
  \/ agg_yield
  \/ \E row \in HeaderRows \cup DataRows \cup {SentinelRow} : agg_first(row)
  \/ \E row \in HeaderRows \cup DataRows : agg_row(row)
  \/ agg_end

SpecAgg == Init /\ [][NextAgg]_vars

\* ------------------------------------------------------------------------
\* Properties of the aggregate
\* ------------------------------------------------------------------------

IsPrefix(a, b) == Len(a) <= Len(b) /\ SubSeq(b, 1, Len(a)) = a
DataIdx(seq) == {k \in 1..Len(seq) : ~seq[k].header}
HeaderIdx(seq) == {k \in 1..Len(seq) : seq[k].header}
FirstCell(row) == Strip(row.cells[1])
RowStep == rowsRead' = rowsRead + 1
EmptyStep == harvested' = harvested + 1 /\ aggPc' = "wait"
AggStateNext ==
  [agg |-> aggregated', seen |-> seen_ids', hdr |-> header_added', err |-> aggErr']

\* C16: no two data rows of the aggregate have the same id (first cell);
\* handling a row only appends, a data row it appends has an id no earlier
\* row had, and the id of a handled data row is in the aggregate afterwards
\* (so the row kept for an id is the first harvested); handling the same row
\* once more would change nothing.
C16_Dedup ==
  /\ [](\A j \in DataIdx(aggregated), k \in DataIdx(aggregated) :
          j # k => FirstCell(aggregated[j]) # FirstCell(aggregated[k]))
  /\ [][RowStep =>
          /\ IsPrefix(aggregated, aggregated')
          /\ \A k \in DataIdx(aggregated') :
               k > Len(aggregated) =>
                 \A j \in 1..Len(aggregated) :
                   FirstCell(aggregated[j]) # FirstCell(aggregated'[k])
          /\ (~lastRow'.header /\ lastRow'.cells # <<>>
                /\ FirstCell(lastRow') # EmptyText) =>
               \E j \in 1..Len(aggregated') :
                 FirstCell(aggregated'[j]) = FirstCell(lastRow')
          /\ AggStateNext =
               IF rowsRead = 0 THEN AggregateResult(AggStateNext, <<lastRow'>>)
               ELSE AggRows(AggStateNext, <<lastRow'>>)]_vars

C16_Witness ==
  /\ harvested = 2 /\ aggPc = "wait" /\ dupSeen /\ rowsRead = 3
  /\ resHead = HeaderRow(<<IdName, IpName>>) /\ lastRow = DataRow(<<Two, One>>)
  /\ aggregated = <<HeaderRow(<<IdName, IpName>>), DataRow(<<One, One>>),
                    DataRow(<<Two, One>>)>>
  /\ seen_ids = {One, Two}

\* C17: the aggregate has at most one row flagged as header.
C17_OneHeader == Cardinality(HeaderIdx(aggregated)) <= 1

\* C18: when the aggregate has a row flagged as header, its first row is one.
C18_HeaderFirst == HeaderIdx(aggregated) # {} => aggregated[1].header

IdColumn(hrow) ==
  IF hrow.header /\ \E j \in 1..Len(hrow.cells) : hrow.cells[j] = IdName
    THEN CHOOSE j \in 1..Len(hrow.cells) : hrow.cells[j] = IdName
    ELSE 0

\* C20: in the first unit result, when it starts with a header row that has
\* an ID column, a data row that was handled is represented in the aggregate
\* by a row with the same value in that column, and no two data rows of the
\* aggregate have the same value in it.
C20_KeyByHeader ==
  [][(RowStep /\ harvested = 1 /\ IdColumn(resHead) # 0 /\ ~lastRow'.header) =>
       LET c == IdColumn(resHead) IN
       /\ \E j \in DataIdx(aggregated') :
            Strip(aggregated'[j].cells[c]) = Strip(lastRow'.cells[c])
       /\ \A j \in DataIdx(aggregated'), k \in DataIdx(aggregated') :
            j # k => Strip(aggregated'[j].cells[c]) # Strip(aggregated'[k].cells[c])]_vars

\* C21: a data row that has a non-empty cell but no id (its first cell is
\* empty) is kept: handling it appends it to the aggregate.
C21_NoIdKept ==
  [][(RowStep /\ ~lastRow'.header /\ lastRow'.cells # <<>>
        /\ FirstCell(lastRow') = EmptyText) =>
       aggregated' = Append(aggregated, lastRow')]_vars

\* ------------------------------------------------------------------------
\* BlackholeCreator.submit_blackholes_http and _do_op, one call each
\* ------------------------------------------------------------------------

\* What the portal can give to one POST: int(resp.status or 0) and the kind of
\* body ("created": it has one of the success words; "error": it reports an
\* error; "plain": neither), or an exception raised by the transport.
HttpStatuses == {0, 200, 399, 400, 401}
Bodies == {"created", "error", "plain"}
Answers ==
  {[raised |-> FALSE, status |-> st, body |-> b, err |-> ""] :
     st \in {x \in HttpStatuses : x < 400}, b \in Bodies}
    \cup {[raised |-> FALSE, status |-> st, body |-> "error", err |-> ""] :
            st \in {x \in HttpStatuses : x >= 400}}
    \cup {[raised |-> TRUE, status |-> 0, body |-> "", err |-> "transport"]}

\* Mutant of ValidationError: the ticket_number / autoclose_time check is
\* left out.
ValidationErrorNoTicket(ips, ticket, autoclose, state) ==
  IF ips = <<>> THEN "No IPs provided."
  ELSE IF ~state THEN "No storage_state. Please log in first."
  ELSE ""

\* submit_blackholes_http lines 53-58: the message of the CreateBlackholeError
\* the argument checks raise, "" when they raise nothing.
ValidationError(ips, ticket, autoclose, state) ==
  IF ips = <<>> THEN "No IPs provided."
  ELSE IF ~ticket /\ ~autoclose
         THEN "Either ticket_number or autoclose_time must be provided"
  ELSE IF ~state THEN "No storage_state. Please log in first."
  ELSE ""

\* Mutant of MayRetry: the except branch never retries.
RetryNever(n) == FALSE

\* submit_blackholes_http line 124: attempt < self.MAX_RETRIES.
MayRetry(n) == n < MAX_RETRIES

\* Lines 107-110: the status makes the attempt raise CreateBlackholeError.
StatusRaises(st) == st = 401 \/ st >= 400

\* An attempt ends in the except branch (line 121).
AttemptFails(o) == o.raised \/ StatusRaises(o.status)

\* Lines 112-118: the message of an attempt that did not raise.
SuccessMessage(body) ==
  IF body = "created" THEN "Blackhole created successfully (POST)"
  ELSE "POST submitted (no error detected)"

\* A caller invokes submit_blackholes_http (a run has one call of one of the
\* two executors).
create_call(n, ticket, autoclose, state) ==
  /\ cpc = "idle"
  /\ uRes = NoUnitRes /\ fRes = NoFetchRes
  /\ cpc' = "validate"
  /\ ip_list' = [k \in 1..n |-> k]
  /\ ticket_number' = ticket
  /\ autoclose_time' = autoclose
  /\ storage_state' = state
  /\ UNCHANGED <<batchVars, clientVars, aggVars, guiVars, ipIdx, nAttempt, cresult,
                 cresults, cerr, tries, posts, uOut, uRes, fOut, fRes>>

\* Lines 53-58: the argument checks.
validate ==
  /\ cpc = "validate"
  /\ cerr' = ValidationError(ip_list, ticket_number, autoclose_time, storage_state)
  /\ cpc' = IF cerr' # "" THEN "raised" ELSE "setup"
  /\ UNCHANGED <<batchVars, clientVars, aggVars, guiVars, ip_list, ticket_number,
                 autoclose_time, storage_state, ipIdx, nAttempt, cresult,
                 cresults, tries, posts, uOut, uRes, fOut, fRes>>

\* Lines 64-75: Playwright is started and the request context is built, or
\* one of the two raises and the exception leaves the call.
setup(ok) ==
  /\ cpc = "setup"
  /\ cpc' = IF ok THEN "loop" ELSE "raised"
  /\ cerr' = IF ok THEN cerr ELSE "setup"
  /\ UNCHANGED <<batchVars, clientVars, aggVars, guiVars, ip_list, ticket_number,
                 autoclose_time, storage_state, ipIdx, nAttempt, cresult,
                 cresults, tries, posts, uOut, uRes, fOut, fRes>>

\* Lines 78-92 and 136-145: the for loop takes the next ip, or it is over,
\* the request context is disposed and results is returned.
next_ip ==
  /\ cpc = "loop"
  /\ IF ipIdx < Len(ip_list)
       THEN /\ ipIdx' = ipIdx + 1
            /\ cresult' = [ip |-> ip_list[ipIdx + 1], success |-> FALSE,
                           status |-> 0, message |-> ""]
            /\ nAttempt' = 0
            /\ tries' = <<>>
            /\ cpc' = "attempt"
       ELSE /\ cpc' = "returned"
            /\ UNCHANGED <<ipIdx, cresult, nAttempt, tries>>
  /\ UNCHANGED <<batchVars, clientVars, aggVars, guiVars, ip_list, ticket_number,
                 autoclose_time, storage_state, cresults, cerr, posts, uOut, uRes, fOut, fRes>>

\* Lines 93-130, one iteration of the while loop: the POST gets answer o.
post_attempt(o) ==
  /\ cpc = "attempt"
  /\ nAttempt < MAX_RETRIES
  /\ nAttempt' = nAttempt + 1
  /\ posts' = posts + 1
  /\ tries' = Append(tries, o)
  /\ LET st == IF o.raised THEN cresult.status ELSE o.status IN
       IF AttemptFails(o)
         THEN IF MayRetry(nAttempt')
                THEN /\ cresult' = [cresult EXCEPT !.status = st,
                                                   !.message = "POST error"]
                     /\ cpc' = "attempt"
                ELSE /\ cresult' = [cresult EXCEPT !.status = st, !.success = FALSE,
                                                   !.message = "Failed after"]
                     /\ cpc' = "append"
         ELSE /\ cresult' = [cresult EXCEPT !.status = st, !.success = TRUE,
                                            !.message = SuccessMessage(o.body)]
              /\ cpc' = "append"
  /\ UNCHANGED <<batchVars, clientVars, aggVars, guiVars, ip_list, ticket_number,
                 autoclose_time, storage_state, ipIdx, cresults, cerr, uOut, uRes, fOut, fRes>>

\* Lines 132-134: results.append(result).
append_result ==
  /\ cpc = "append"
  /\ cresults' = Append(cresults, cresult)
  /\ cpc' = "loop"
  /\ UNCHANGED <<batchVars, clientVars, aggVars, guiVars, ip_list, ticket_number,
                 autoclose_time, storage_state, ipIdx, nAttempt, cresult, cerr,
                 tries, posts, uOut, uRes, fOut, fRes>>

\* _do_op for one descriptor with no abort: the portal would give o to the
\* POST of the unit.
do_op(o) ==
  /\ cpc = "idle"
  /\ uRes = NoUnitRes /\ fRes = NoFetchRes
  /\ uOut' = o
  /\ uRes' = DoOpDict(1, o)
  /\ UNCHANGED <<batchVars, clientVars, aggVars, guiVars, cpc, ip_list, ticket_number,
                 autoclose_time, storage_state, ipIdx, nAttempt, cresult,
                 cresults, cerr, tries, posts, fOut, fRes>>

\* RetrievalEngine._http_fetch_and_parse lines 196-224: the request raised,
\* the status is 401 or at least 400, or reading and parsing the page raised;
\* each ends as a RetrievalError that leaves retrieve().
RetrieveRaises(o, parseRaises) ==
  o.raised \/ o.status = 401 \/ o.status >= 400 \/ parseRaises

\* fetch_ip lines 1026-1038 after the abort check: the rows retrieve() gave,
\* or the empty list when it raised anything.
FetchIpValue(o, parseRaises, rows) ==
  IF RetrieveRaises(o, parseRaises) THEN <<>> ELSE rows

\* The lists _parse_tables_in_page gives here: the sentinel (no row), or a
\* header row and a data row.
ParsedLists ==
  {<<SentinelRow>>, <<HeaderRow(<<IdName, IpName>>), DataRow(<<One, One>>)>>}

\* fetch_ip for one ip with no abort.
fetch_ip(o, parseRaises, rows) ==
  /\ cpc = "idle"
  /\ uRes = NoUnitRes /\ fRes = NoFetchRes
  /\ fOut' = [o EXCEPT !.err = IF parseRaises /\ ~o.raised THEN "parse" ELSE @]
  /\ fRes' = FetchIpValue(o, parseRaises, rows)
  /\ UNCHANGED <<batchVars, clientVars, aggVars, guiVars, cpc, ip_list, ticket_number,
                 autoclose_time, storage_state, ipIdx, nAttempt, cresult,
                 cresults, cerr, tries, posts, uOut, uRes>>

NextExec ==
  \/ \E n \in 0..MaxIps, t \in BOOLEAN, a \in BOOLEAN, st \in BOOLEAN :
       create_call(n, t, a, st)
  \/ validate
  \/ \E ok \in BOOLEAN : setup(ok)
  \/ next_ip
  \/ \E o \in Answers : post_attempt(o)
  \/ append_result
  \/ \E o \in Answers : do_op(o)
  \/ \E o \in Answers, pr \in BOOLEAN, rows \in ParsedLists : fetch_ip(o, pr, rows)

SpecExec == Init /\ [][NextExec]_vars

\* A thread that runs submit_blackholes_http keeps running.
FairSpecExec == SpecExec /\ WF_vars(NextExec)

\* ------------------------------------------------------------------------
\* Properties of the executors
\* ------------------------------------------------------------------------

AllFailed(seq) == \A k \in 1..Len(seq) : AttemptFails(seq[k])
IpFinished == cpc \in {"append", "loop", "returned"} /\ tries # <<>>
CallOver == cpc \in {"returned", "raised"}

\* C22: an ip gets at most MAX_RETRIES = 3 POSTs and none after the first
\* attempt that did not raise; its result is a success without the "Failed
\* after" message exactly when its last attempt did not raise, and a failure
\* with that message only when all 3 attempts raised; every call that was
\* begun is over at some time.
C22_BoundedRetry ==
  /\ [](/\ Len(tries) <= MAX_RETRIES /\ nAttempt = Len(tries)
        /\ \A k \in 1..(Len(tries) - 1) : AttemptFails(tries[k])
        /\ cpc = "attempt" => (AllFailed(tries) /\ Len(tries) < MAX_RETRIES)
        /\ IpFinished =>
             /\ cresult.success <=> ~AttemptFails(tries[Len(tries)])
             /\ cresult.success => cresult.message # "Failed after"
             /\ ~cresult.success =>
                  /\ Len(tries) = MAX_RETRIES /\ AllFailed(tries)
                  /\ cresult.message = "Failed after"
        /\ \A k \in 1..Len(cresults) :
             cresults[k].success <=> cresults[k].message # "Failed after")
  /\ (cpc = "validate" ~> CallOver)

C22_Witness ==
  /\ cpc = "returned" /\ Len(cresults) = 2
  /\ Len(tries) = 3 /\ tries[1].raised /\ tries[2].raised /\ ~AttemptFails(tries[3])
  /\ cresults[2].success /\ cresults[2].status = 200
  /\ cresults[2].message = "Blackhole created successfully (POST)"

\* C23: after a POST that was answered with status 401 no further POST is
\* issued for that ip.
C23_No401Retry ==
  \A k \in 1..Len(tries) :
    (~tries[k].raised /\ tries[k].status = 401) => k = Len(tries)

\* C25: a call with an empty ip list, with neither ticket number nor
\* auto-close time, or without session state raises CreateBlackholeError
\* with no POST issued and no result; a call with an ip, one of the two
\* fields and a session state raises nothing in its argument checks.
C25_Validation ==
  LET bad == ip_list = <<>> \/ (~ticket_number /\ ~autoclose_time) \/ ~storage_state
      checked == cpc \notin {"idle", "validate"}
  IN /\ (checked /\ bad) =>
          /\ cpc = "raised" /\ cerr \notin {"", "setup"}
          /\ posts = 0 /\ cresults = <<>> /\ cresult = NoCreateResult
     /\ (checked /\ ~bad) => cerr \in {"", "setup"}
     /\ cpc = "raised" => (posts = 0 /\ cresults = <<>>)

C25_Witness ==
  /\ cpc = "raised" /\ Len(ip_list) = 2 /\ storage_state
  /\ ~ticket_number /\ ~autoclose_time
  /\ cerr = "Either ticket_number or autoclose_time must be provided"
  /\ posts = 0 /\ cresults = <<>>

\* C26: the result of an ip whose last POST was answered with a body that
\* reports an error is not a success.
C26_ErrorMarkerFails ==
  (IpFinished /\ cresult.success) => tries[Len(tries)].body # "error"

\* C27: a _do_op whose POST the portal would answer with a status in
\* [200,399] returns success with that status.
C27_UpdateSuccess ==
  (uRes # NoUnitRes /\ ~uOut.raised /\ uOut.status \in 200..399) =>
    (uRes.success /\ uRes.status = uOut.status)

\* C28: every result with success = true, of the Create executor and of
\* _do_op, has a status in [200,399].
C28_SuccessStatus ==
  /\ \A k \in 1..Len(cresults) :
       cresults[k].success => cresults[k].status \in 200..399
  /\ uRes.success => uRes.status \in 200..399

\* C24: what fetch_ip returns for a request answered with status 401
\* differs from what it returns for a request answered with another
\* status, for a request or a parse that raised, and for a page with no row.
C24_Distinct401 ==
  (fRes # NoFetchRes /\ ~fOut.raised /\ fOut.err = "" /\ fOut.status = 401) =>
    \A o \in Answers, pr \in BOOLEAN, rows \in ParsedLists :
      (o.raised \/ pr \/ o.status # 401) => FetchIpValue(o, pr, rows) # fRes

\* ------------------------------------------------------------------------
\* BlackholeGUI.task_progress, written by the jobs that run at the same time
\* ------------------------------------------------------------------------

\* The key of self.task_progress a job writes under: 'UPDATE' in
\* _execute_batch_operations, 'RETRIEVE' in do_retrieve and in the worker of
\* on_collect_ids_from_pasted_ips.
Key(j) == IF j \in {"UpdateA", "UpdateB"} THEN "UPDATE" ELSE "RETRIEVE"

\* Lines 1535-1542, 1011-1012, 2010-2011: under progress_lock the job stores
\* a new dict under its key.  No handler refuses to start a job while another
\* one runs.
job_begin(j, n) ==
  /\ jpc[j] = "idle"
  /\ jpc' = [jpc EXCEPT ![j] = "running"]
  /\ jtotal' = [jtotal EXCEPT ![j] = n]
  /\ jdone' = [jdone EXCEPT ![j] = 0]
  /\ task_progress' = [task_progress EXCEPT ![Key(j)] =
       [total |-> n, processed |-> 0, aborted |-> FALSE, present |-> TRUE]]
  /\ UNCHANGED <<batchVars, clientVars, aggVars, execVars, restVars, loginVars, progress_lock>>

\* Lines 1554-1556, 1048-1050, 2080-2082: a unit was harvested; under
\* progress_lock the job stores its processed count under its key.
job_progress(j) ==
  /\ jpc[j] = "running"
  /\ jdone[j] < jtotal[j]
  /\ jdone' = [jdone EXCEPT ![j] = @ + 1]
  /\ task_progress' = [task_progress EXCEPT ![Key(j)].processed = jdone'[j]]
  /\ UNCHANGED <<batchVars, clientVars, aggVars, execVars, restVars, loginVars, jpc, jtotal,
                 progress_lock>>

\* The job ends, after its last unit or on abort (ab).  Lines 1593-1598: a
\* batch update stores processed and, on abort, aborted; lines 1063-1065 and
\* 2058-2060: the other two store aborted on abort only.
job_finish(j, ab) ==
  /\ jpc[j] = "running"
  /\ ab \/ jdone[j] = jtotal[j]
  /\ task_progress' = [task_progress EXCEPT ![Key(j)] =
       IF Key(j) = "UPDATE"
         THEN [@ EXCEPT !.processed = jdone[j], !.aborted = @ \/ ab]
         ELSE [@ EXCEPT !.aborted = @ \/ ab]]
  /\ jpc' = [jpc EXCEPT ![j] = "idle"]
  /\ jtotal' = [jtotal EXCEPT ![j] = 0]
  /\ jdone' = [jdone EXCEPT ![j] = 0]
  /\ UNCHANGED <<batchVars, clientVars, aggVars, execVars, restVars, loginVars, progress_lock>>

NextProgress ==
  \/ \E j \in Jobs, n \in 1..MaxTotal : job_begin(j, n)
  \/ \E j \in Jobs : job_progress(j)
  \/ \E j \in Jobs, ab \in BOOLEAN : job_finish(j, ab)

SpecProgress == Init /\ [][NextProgress]_vars

\* C29: a step that is not a step of job k leaves the total, processed and
\* aborted fields job k sees under its key as they were while k runs.
C29_NoOverwrite ==
  [][\A k \in Jobs :
       (jpc[k] = "running" /\ jpc'[k] = "running" /\ jdone'[k] = jdone[k]) =>
         task_progress'[Key(k)] = task_progress[Key(k)]]_vars

\* ------------------------------------------------------------------------
\* Login: BlackholeGUI.on_login.do_login, AuthManager, PlaywrightConfig
\* ------------------------------------------------------------------------

Usernames == {"alice", "bob"}
Passwords == {"pw1", "pw2"}

\* PlaywrightConfig(..., http_user=os.environ.get("BH_HTTP_USER") or "",
\* http_pass=os.environ.get("BH_HTTP_PASS") or ""): AuthManager lines 94-100.
ConfigFromEnviron(env) == [http_user |-> env.username, http_pass |-> env.password]

\* do_login lines 847-853: the dialog returns credentials.
login_prompt(u, p) ==
  /\ lpc = "idle"
  /\ creds' = [username |-> u, password |-> p]
  /\ auth_config' = NoConfig
  /\ lpc' = "auth"
  /\ UNCHANGED <<batchVars, clientVars, aggVars, execVars, restVars, progVars, environ,
                 pw_config, logged_in, lastLogin>>

\* AuthManager.login_with_http_credentials: the page answers with a status
\* in [200,399] and the config is built (ok), or the login fails.
login_auth(ok) ==
  /\ lpc = "auth"
  /\ auth_config' = IF ok THEN ConfigFromEnviron(environ) ELSE NoConfig
  /\ lpc' = IF ok THEN "ok" ELSE "failed"
  /\ UNCHANGED <<batchVars, clientVars, aggVars, execVars, restVars, progVars, creds, environ,
                 pw_config, logged_in, lastLogin>>

\* do_login lines 859-862: logged_in is set, pw_config = auth_mgr.get_config().
login_ok ==
  /\ lpc = "ok"
  /\ logged_in' = TRUE
  /\ pw_config' = auth_config
  /\ lastLogin' = creds
  /\ lpc' = "env"
  /\ UNCHANGED <<batchVars, clientVars, aggVars, execVars, restVars, progVars, creds, environ,
                 auth_config>>

\* do_login lines 867-868: the credentials are stored in os.environ.
login_setenv ==
  /\ lpc = "env"
  /\ environ' = creds
  /\ lpc' = "idle"
  /\ UNCHANGED <<batchVars, clientVars, aggVars, execVars, restVars, progVars, creds,
                 auth_config, pw_config, logged_in, lastLogin>>

\* do_login lines 877-889: the login failed or raised.
login_failed ==
  /\ lpc = "failed"
  /\ logged_in' = FALSE
  /\ lpc' = "idle"
  /\ UNCHANGED <<batchVars, clientVars, aggVars, execVars, restVars, progVars, creds, environ,
                 auth_config, pw_config, lastLogin>>

\* _auto_logout lines 785-788: logged_in is reset; pw_config and
\* os.environ are left as they are.
auto_logout ==
  /\ lpc = "idle"
  /\ logged_in
  /\ logged_in' = FALSE
  /\ UNCHANGED <<batchVars, clientVars, aggVars, execVars, restVars, progVars, lpc, creds,
                 environ, auth_config, pw_config, lastLogin>>

NextLogin ==
  \/ \E u \in Usernames, p \in Passwords : login_prompt(u, p)
  \/ \E ok \in BOOLEAN : login_auth(ok)
  \/ login_ok
  \/ login_setenv
  \/ login_failed
  \/ auto_logout

SpecLogin == Init /\ [][NextLogin]_vars

\* C30: when a login has succeeded and do_login is over, pw_config holds the
\* username and the password of that login.
C30_ConfigHoldsLogin ==
  (logged_in /\ lpc = "idle") =>
    (pw_config.http_user = lastLogin.username /\ pw_config.http_pass = lastLogin.password)

\* ------------------------------------------------------------------------
\* The two locks of an UPDATE batch: PlaywrightClient._lock, taken by the pool
\* threads, and BlackholeGUI.progress_lock, taken by the thread that runs
\* _execute_batch_operations
\* ------------------------------------------------------------------------

\* The job whose thread harvests the batch.
Harvester == "UpdateA"

\* progress_cb line 1555: the harvest thread enters "with self.progress_lock"
\* for the next harvested unit.
report_enter ==
  /\ jpc[Harvester] = "running"
  /\ jdone[Harvester] < jtotal[Harvester]
  /\ progress_lock = "none"
  /\ progress_lock' = Harvester
  /\ jpc' = [jpc EXCEPT ![Harvester] = "locked"]
  /\ UNCHANGED <<batchVars, clientVars, aggVars, execVars, restVars, loginVars, task_progress,
                 jtotal, jdone>>

\* progress_cb lines 1555-1557: the processed field is stored and the with
\* block ends; the status message and the progress bar follow outside of it.
report_write ==
  /\ jpc[Harvester] = "locked"
  /\ progress_lock = Harvester
  /\ jdone' = [jdone EXCEPT ![Harvester] = @ + 1]
  /\ task_progress' = [task_progress EXCEPT !["UPDATE"].processed = jdone'[Harvester]]
  /\ progress_lock' = "none"
  /\ jpc' = [jpc EXCEPT ![Harvester] = "running"]
  /\ UNCHANGED <<batchVars, clientVars, aggVars, execVars, restVars, loginVars, jtotal>>

\* _execute_batch_operations lines 1593-1598 after batch_post_views returned:
\* the summary counts are stored under the lock; the worker goes on to its
\* finally block (eng.close()).
summary_write ==
  /\ jpc[Harvester] = "running"
  /\ jdone[Harvester] = jtotal[Harvester]
  /\ progress_lock = "none"
  /\ task_progress' = [task_progress EXCEPT !["UPDATE"].processed = jdone[Harvester]]
  /\ jpc' = [jpc EXCEPT ![Harvester] = "closing"]
  /\ UNCHANGED <<batchVars, clientVars, aggVars, execVars, restVars, loginVars, jtotal, jdone,
                 progress_lock>>

\* eng.close() -> PlaywrightClient.dispose(), called once the summary is stored.
engine_close(t) ==
  /\ jpc[Harvester] = "closing"
  /\ dispose_begin(t)

NextLocks ==
  \/ NextClient
  \/ job_begin(Harvester, MaxTotal)
  \/ report_enter
  \/ report_write
  \/ summary_write
  \/ \E t \in Threads : engine_close(t)
  \/ \E t \in Threads : dispose_close(t)
  \/ \E t \in Threads : dispose_end(t)

SpecLocks == Init /\ [][NextLocks]_vars

\* C31: a thread holds the client's lock only between the append to the
\* tracked list and the end of that with block, never while it builds a
\* channel or has a request in flight, and no lock is held while dispose()
\* closes sessions; the progress lock is held only at the store of the
\* progress field.  So whenever a request is in flight, each lock is free or
\* its holder's next step releases it.
C31_LocksMinimal ==
  /\ \A t \in Threads :
       /\ lock = t => (tpc[t] = "tracked" /\ dthr # t)
       /\ tpc[t] \in {"creating", "built", "request"} => lock # t
  /\ progress_lock # "none" => jpc[progress_lock] = "locked"
  /\ dthr # 0 => (lock = 0 /\ progress_lock = "none")

C31_Witness ==
  \E t \in Threads, u \in Threads :
    /\ t # u /\ lock = t /\ InRequest(u)
    /\ progress_lock = Harvester

\* ------------------------------------------------------------------------
\* RetrievalEngine._build_payload
\* ------------------------------------------------------------------------

\* The values a filters dict is built from: per key, the key is absent or has
\* one of these values ("" is a present, falsy value).
FilterValues(k) ==
  CASE k = "blackhole_id_value" -> {"", "17"}
    [] k = "ticket_number_value" -> {"T1"}
    [] k = "ticket_system" -> {"ntm/remedy", "Other"}
    [] k = "opened_by_value" -> {"alice"}
    [] k = "ip_address_value" -> {"10.0.0.1"}
    [] k = "search_value" -> {"10.0.0.2"}
    [] k = "view" -> {"Active"}
    [] k = "month" -> {"march", "7", "bogus"}
    [] k = "year" -> {"2024"}
    [] k = "open_date_value" -> {"x"}
    [] OTHER -> {"d"}

FilterOpts(k) == FilterValues(k) \cup {Absent}

FilterDicts ==
  [blackhole_id_value : FilterOpts("blackhole_id_value"),
   ticket_number_value : FilterOpts("ticket_number_value"),
   ticket_system : FilterOpts("ticket_system"),
   opened_by_value : FilterOpts("opened_by_value"),
   ip_address_value : FilterOpts("ip_address_value"),
   search_value : FilterOpts("search_value"),
   view : FilterOpts("view"),
   month : FilterOpts("month"),
   year : FilterOpts("year"),
   open_date_value : FilterOpts("open_date_value"),
   description : FilterOpts("description")]

\* Python truthiness of filters.get(k): None and "" are falsy.
Truthy(v) == v \notin {Absent, ""}

\* filters.get(k, default)
Get(f, k, default) == IF f[k] = Absent THEN default ELSE f[k]

\* filters.get(k) or default
GetOr(f, k, default) == IF Truthy(f[k]) THEN f[k] ELSE default

\* _normalize_ticket_system lines 65-67: strip, lower, "/" -> "-", compared
\* with "ntm-remedy".
NormalizeTicketSystem(raw) ==
  IF raw \in {"NTM-Remedy", "ntm-remedy", "ntm/remedy", "NTM/Remedy"}
    THEN "NTM-Remedy" ELSE raw

\* _month_to_number lines 159-175: a month name or a number gives two
\* digits, anything else "01".
MonthToNumber(m) ==
  CASE m = "march" -> "03"
    [] m = "7" -> "07"
    [] m = "01" -> "01"
    [] OTHER -> "01"

\* Mutant of EndpointOf: every mode goes to search.cgi.
EndpointAlwaysSearch(mode) == "search.cgi"

\* _build_payload lines 70, 74: endpoint is "search.cgi" unless the
\* blackhole-id branch sets "view.cgi".
EndpointOf(mode) == IF mode = "blackhole_id" THEN "view.cgi" ELSE "search.cgi"

\* _build_payload lines 69-106.
BuildPayload(f) ==
  IF Truthy(f["blackhole_id_value"])
    THEN [endpoint |-> EndpointOf("blackhole_id"),
          payload |-> [searchby |-> "blackhole_id",
                       id |-> Get(f, "blackhole_id_value", "")]]
  ELSE IF Truthy(f["ticket_number_value"])
    THEN [endpoint |-> EndpointOf("ticket"),
          payload |-> [searchby |-> "ticket",
                       ticket_system |->
                         NormalizeTicketSystem(Get(f, "ticket_system", "NTM-Remedy")),
                       ticket_number |-> Get(f, "ticket_number_value", "")]]
  ELSE IF Truthy(f["opened_by_value"])
    THEN [endpoint |-> EndpointOf("open_user"),
          payload |-> [searchby |-> "open_user",
                       user |-> Get(f, "opened_by_value", "")]]
  ELSE IF Truthy(f["ip_address_value"]) \/ Truthy(f["search_value"])
    THEN [endpoint |-> EndpointOf("ipaddress"),
          payload |-> [searchby |-> "ipaddress",
                       ipaddress |-> GetOr(f, "ip_address_value",
                                           Get(f, "search_value", "")),
                       view |-> Get(f, "view", "Both")]]
  ELSE IF Truthy(f["month"]) \/ Truthy(f["year"]) \/ Truthy(f["open_date_value"])
    THEN [endpoint |-> EndpointOf("open_date"),
          payload |-> [searchby |-> "open_date",
                       month |-> MonthToNumber(GetOr(f, "month", "01")),
                       year |-> GetOr(f, "year", "2020"),
                       description |-> Get(f, "description", "")]]
  ELSE [endpoint |-> EndpointOf("active_holes"),
        payload |-> [searchby |-> "active_holes"]]

\* The call of _build_payload (from _http_fetch_and_parse, line 182) on one
\* filters dict; the function reads nothing but its argument, so one call per
\* behaviour covers every call.
build_payload(f) ==
  /\ built = <<>>
  /\ built' = <<[filters |-> f, endpoint |-> BuildPayload(f).endpoint,
                 payload |-> BuildPayload(f).payload]>>
  /\ UNCHANGED <<batchVars, clientVars, aggVars, execVars, progVars, loginVars, logVars>>

NextPayload == \E f \in FilterDicts : build_payload(f)

SpecPayload == Init /\ [][NextPayload]_vars

\* The search modes in priority order, the filter keys that select each, and
\* the payload fields of each.
ModeOrder == <<"blackhole_id", "ticket", "open_user", "ipaddress", "open_date">>

Triggers(mode) ==
  CASE mode = "blackhole_id" -> {"blackhole_id_value"}
    [] mode = "ticket" -> {"ticket_number_value"}
    [] mode = "open_user" -> {"opened_by_value"}
    [] mode = "ipaddress" -> {"ip_address_value", "search_value"}
    [] mode = "open_date" -> {"month", "year", "open_date_value"}
    [] OTHER -> {}

ModeFields(mode) ==
  CASE mode = "blackhole_id" -> {"searchby", "id"}
    [] mode = "ticket" -> {"searchby", "ticket_system", "ticket_number"}
    [] mode = "open_user" -> {"searchby", "user"}
    [] mode = "ipaddress" -> {"searchby", "ipaddress", "view"}
    [] mode = "open_date" -> {"searchby", "month", "year", "description"}
    [] OTHER -> {"searchby"}

Selected(f) ==
  LET hits == {k \in 1..Len(ModeOrder) :
                 \E key \in Triggers(ModeOrder[k]) : Truthy(f[key])}
  IN IF hits = {} THEN "active_holes" ELSE ModeOrder[Min(hits)]

\* C36: the payload built for a filters dict is the one of the first mode, in
\* the order blackhole id, ticket, opened-by, IP address / search value, open
\* date, that has a truthy filter, and of active holes when none has; it has
\* exactly the fields of that mode, with the values of that mode's filters;
\* the endpoint is view.cgi for the blackhole-id mode and search.cgi for
\* every other mode.
C36_OneMode ==
  \A c \in 1..Len(built) :
    LET filters == built[c].filters
        mode == Selected(filters)
        p == built[c].payload
    IN /\ p.searchby = mode
       /\ DOMAIN p = ModeFields(mode)
       /\ built[c].endpoint = (IF mode = "blackhole_id" THEN "view.cgi" ELSE "search.cgi")
       /\ mode = "blackhole_id" => p.id = filters["blackhole_id_value"]
       /\ mode = "ticket" => p.ticket_number = filters["ticket_number_value"]
       /\ mode = "open_user" => p.user = filters["opened_by_value"]
       /\ mode = "ipaddress" =>
            p.ipaddress = (IF Truthy(filters["ip_address_value"])
                             THEN filters["ip_address_value"]
                             ELSE filters["search_value"])

C36_Witness ==
  /\ built # <<>>
  /\ built[1].endpoint = "search.cgi" /\ built[1].payload.searchby = "ticket"
  /\ built[1].filters["blackhole_id_value"] = ""
  /\ Truthy(built[1].filters["opened_by_value"])
  /\ Truthy(built[1].filters["month"])
  /\ built[1].payload.ticket_system = "NTM-Remedy"

\* ------------------------------------------------------------------------
\* SessionLogger: __init__, append, close, _writer_loop
\* ------------------------------------------------------------------------
\* Entries are numbered in the order their put() returned; the file is the
\* sequence of entry numbers written.

logOnly == <<batchVars, clientVars, aggVars, execVars, progVars, loginVars, engineVars>>

\* The logger the GUI holds.
SL == session_logger[1]

\* The logger with some of its state replaced.
Logger(l) == session_logger' = <<l>>

\* SessionLogger.__init__ (BlackholeGUI line 864): the queue and the event
\* are made, the writer thread is started, the header is enqueued.
logger_init ==
  /\ session_logger = <<>>
  /\ Logger([queue |-> <<SessionHeader>>, stop_event |-> FALSE, file |-> <<>>,
             writer |-> [pc |-> "check", item |-> NoItem], closer |-> "idle",
             hist |-> [enqueued |-> 1, atClose |-> 0, queuedAtClose |-> 0,
                       dropped |-> {}]])
  /\ UNCHANGED logOnly

\* append / append_block / append_json: one put of a ("data", text) item on
\* the unbounded queue, at any time, also after close().
log_append ==
  /\ session_logger # <<>>
  /\ SL.hist.enqueued < MaxEntries
  /\ LET e == SL.hist.enqueued + 1 IN
       Logger([SL EXCEPT !.queue = Append(@, [kind |-> "data", entry |-> e]),
                         !.hist.enqueued = e])
  /\ UNCHANGED logOnly

\* close() line 105: self._stop_event.set()
close_set ==
  /\ session_logger # <<>>
  /\ SL.closer = "idle"
  /\ Logger([SL EXCEPT !.stop_event = TRUE, !.closer = "signalled",
                       !.hist.atClose = SL.hist.enqueued,
                       !.hist.queuedAtClose = Len(SL.queue)])
  /\ UNCHANGED logOnly

\* close() line 107: self._queue.put(("_stop", ""))
close_put ==
  /\ session_logger # <<>>
  /\ SL.closer = "signalled"
  /\ Logger([SL EXCEPT !.queue = Append(@, [kind |-> "_stop", entry |-> 0]),
                       !.closer = "joining"])
  /\ UNCHANGED logOnly

\* close() line 108: join(timeout) returns when the writer has ended or the
\* timeout has passed.
close_join ==
  /\ session_logger # <<>>
  /\ SL.closer = "joining"
  /\ Logger([SL EXCEPT !.closer = "closed"])
  /\ UNCHANGED logOnly

\* _writer_loop line 115: the while condition.
writer_check ==
  /\ session_logger # <<>>
  /\ SL.writer.pc = "check"
  /\ Logger([SL EXCEPT !.writer.pc = IF ~SL.stop_event \/ SL.queue # <<>>
                                       THEN "get" ELSE "stopped"])
  /\ UNCHANGED logOnly

\* Mutant of QueueGet: the newest item is taken.
QueueGetLast(q) == [item |-> q[Len(q)], rest |-> SubSeq(q, 1, Len(q) - 1)]

\* queue.Queue.get: the oldest item.
QueueGet(q) == [item |-> Head(q), rest |-> Tail(q)]

\* _writer_loop lines 116-119: get(timeout=0.5); queue.Empty -> continue.
writer_get ==
  /\ session_logger # <<>>
  /\ SL.writer.pc = "get"
  /\ IF SL.queue = <<>>
       THEN Logger([SL EXCEPT !.writer.pc = "check"])
       ELSE Logger([SL EXCEPT !.writer = [pc |-> "item",
                                          item |-> QueueGet(SL.queue).item],
                              !.queue = QueueGet(SL.queue).rest])
  /\ UNCHANGED logOnly

\* Mutant of AfterWriteError: the exception ends the loop.
WriterCrashes == "stopped"

\* _writer_loop lines 126-132: the exception of a write is caught inside the
\* loop body; after the warning the loop goes on.
AfterWriteError == "check"

\* _writer_loop lines 120-132: the sentinel breaks the loop; a data item is
\* appended to the file, or the write raises and the item is given up.
writer_item ==
  /\ session_logger # <<>>
  /\ SL.writer.pc = "item"
  /\ IF SL.writer.item.kind = "_stop"
       THEN Logger([SL EXCEPT !.writer = [pc |-> "stopped", item |-> NoItem]])
       ELSE \E ok \in BOOLEAN :
              IF ok
                THEN Logger([SL EXCEPT
                               !.file = Append(@, SL.writer.item.entry),
                               !.writer = [pc |-> "check", item |-> NoItem]])
                ELSE Logger([SL EXCEPT
                               !.hist.dropped = @ \cup {SL.writer.item.entry},
                               !.writer = [pc |-> AfterWriteError, item |-> NoItem]])
  /\ UNCHANGED logOnly

NextLog ==
  \/ logger_init
  \/ log_append
  \/ close_set
  \/ close_put
  \/ close_join
  \/ writer_check
  \/ writer_get
  \/ writer_item

SpecLog == Init /\ [][NextLog]_vars

\* The writer is a thread of its own, and close() goes from the set() to the
\* put() without waiting: each of these steps is taken when it stays enabled.
FairSpecLog ==
  /\ SpecLog
  /\ WF_vars(writer_check) /\ WF_vars(writer_get) /\ WF_vars(writer_item)
  /\ WF_vars(close_put)

Written == {SL.file[k] : k \in 1..Len(SL.file)}

InEnqueueOrder ==
  \A j, k \in 1..Len(SL.file) : j < k => SL.file[j] < SL.file[k]

WriterStopped == session_logger # <<>> /\ SL.writer.pc = "stopped"

CloseCalled == session_logger # <<>> /\ SL.stop_event

\* C37 as stated: the file holds entries in enqueue order, each at most once,
\* and when the writer has stopped every entry enqueued before close() was
\* called is in the file.
C37_NoneLost ==
  session_logger # <<>> =>
    /\ InEnqueueOrder
    /\ WriterStopped => \A e \in 1..SL.hist.atClose : e \in Written

\* C37: the file holds entries in enqueue order, each at most once; the
\* entries written or given up are always the first ones enqueued, with no
\* gap; when the writer has stopped, every entry enqueued before close() was
\* called is in the file unless its write raised.
C37_WrittenUnlessRaised ==
  session_logger # <<>> =>
    /\ InEnqueueOrder
    /\ Written \cap SL.hist.dropped = {}
    /\ Written \cup SL.hist.dropped = 1..Cardinality(Written \cup SL.hist.dropped)
    /\ WriterStopped =>
         \A e \in 1..SL.hist.atClose : e \in Written \cup SL.hist.dropped

C37_Witness ==
  /\ WriterStopped
  /\ SL.hist.atClose >= 2
  /\ SL.hist.dropped = {1}
  /\ 2 \in Written

\* C38: once close() has set the stop event the writer eventually ends, and
\* the writer never ends before close() was called, also after a write that
\* raised.
C38_WriterEnds ==
  /\ CloseCalled ~> WriterStopped
  /\ [](WriterStopped => CloseCalled)

C38_Witness ==
  /\ WriterStopped
  /\ SL.hist.dropped # {}
  /\ SL.hist.enqueued > SL.hist.atClose
  /\ SL.hist.queuedAtClose > 0

====
